---- MODULE Spec2Model ----
(***************************************************************************)
(* Model of the two structural extractors of the PDF content extractor:    *)
(* TOCExtractor (src/toc_extractor.py) and ComponentExtractor              *)
(* (src/component_extractor.py).                                           *)
(*                                                                         *)
(* A Python str is a sequence of one-character strings; a text is the      *)
(* list of its lines, joined by "\n" when it is handed to the extractors   *)
(* and split again by them.  None is the sentinel NoneV.  A regular        *)
(* expression of the source is an operator that computes the match Python's*)
(* re module finds (first alternative in backtracking order), returning    *)
(* NoMatch or the groups.                                                  *)
(***************************************************************************)
EXTENDS Integers, Sequences, FiniteSets, TLC

\* ------------------------------------------------------------------------
\* Characters and str methods
\* ------------------------------------------------------------------------

NL == "\n"
NoneV == <<"<None>">>
EnDash == "<endash>"

Digit == {"0", "1", "2", "3", "4", "5", "6", "7", "8", "9"}
UpperSeq == <<"A", "B", "C", "D", "E", "F", "G", "H", "I", "J", "K", "L", "M", "N", "O", "P", "Q", "R", "S", "T", "U", "V", "W", "X", "Y", "Z">>
LowerSeq == <<"a", "b", "c", "d", "e", "f", "g", "h", "i", "j", "k", "l", "m", "n", "o", "p", "q", "r", "s", "t", "u", "v", "w", "x", "y", "z">>
Upper == {UpperSeq[k] : k \in 1..Len(UpperSeq)}
Lower == {LowerSeq[k] : k \in 1..Len(LowerSeq)}
Letter == Upper \cup Lower
\* \s of the re module, on one line of a text
WS == {" ", "\t"}

Truthy(s) == s # NoneV /\ s # <<>>

Min(a, b) == IF a <= b THEN a ELSE b
Max(a, b) == IF a >= b THEN a ELSE b

\* s[a:b] with 0-based a, b as in Python (characters a+1 .. b of the sequence)
Slice(s, a, b) == IF b <= a THEN <<>> ELSE SubSeq(s, a + 1, b)
From(s, a) == Slice(s, a, Len(s))

\* the end of the longest run of characters of class cls that starts after
\* position p (p itself when there is none)
RECURSIVE RunEnd(_, _, _)
RunEnd(s, p, cls) ==
    IF p < Len(s) /\ s[p + 1] \in cls THEN RunEnd(s, p + 1, cls) ELSE p

\* the same for the characters outside excl
RECURSIVE RunEndNot(_, _, _)
RunEndNot(s, p, excl) ==
    IF p < Len(s) /\ s[p + 1] \notin excl THEN RunEndNot(s, p + 1, excl) ELSE p

RECURSIVE TrailingRunStart(_, _, _)
TrailingRunStart(s, p, cls) ==
    IF p > 0 /\ s[p] \in cls THEN TrailingRunStart(s, p - 1, cls) ELSE p

LStrip(s) == From(s, RunEnd(s, 0, WS))
RStrip(s) == Slice(s, 0, TrailingRunStart(s, Len(s), WS))
Strip(s) == LStrip(RStrip(s))

StartsWith(s, p) == Len(s) >= Len(p) /\ SubSeq(s, 1, Len(p)) = p

Contains(s, p) ==
    \E k \in 0..Len(s) : k + Len(p) <= Len(s) /\ SubSeq(s, k + 1, k + Len(p)) = p

LowerChar(c) ==
    IF c \in Upper
    THEN LowerSeq[CHOOSE k \in 1..Len(UpperSeq) : UpperSeq[k] = c]
    ELSE c
ToLower(s) == [k \in 1..Len(s) |-> LowerChar(s[k])]

CountChar(s, c) == Cardinality({k \in 1..Len(s) : s[k] = c})

\* str.split(): the maximal runs of non-whitespace characters
RECURSIVE SplitWords(_)
SplitWords(s) ==
    LET a == RunEnd(s, 0, WS)
        b == IF a < Len(s)
             THEN CHOOSE e \in (a + 1)..Len(s) :
                      /\ \A k \in (a + 1)..e : s[k] \notin WS
                      /\ (e = Len(s) \/ s[e + 1] \in WS)
             ELSE a
    IN  IF a >= Len(s) THEN <<>>
        ELSE <<Slice(s, a, b)>> \o SplitWords(From(s, b))

\* sep.join(parts)
RECURSIVE Join(_, _)
Join(parts, sep) ==
    IF parts = <<>> THEN <<>>
    ELSE IF Len(parts) = 1 THEN parts[1]
    ELSE parts[1] \o sep \o Join(Tail(parts), sep)

\* str.split(sep) for a one-character separator
RECURSIVE SplitOn(_, _)
SplitOn(s, sep) ==
    IF \E k \in 1..Len(s) : s[k] = sep
    THEN LET k == CHOOSE j \in 1..Len(s) :
                      s[j] = sep /\ \A h \in 1..(j - 1) : s[h] # sep
         IN  <<Slice(s, 0, k - 1)>> \o SplitOn(From(s, k), sep)
    ELSE <<s>>

\* int(s) for a string of decimal digits
DigitVal(c) == CHOOSE d \in 0..9 : <<"0", "1", "2", "3", "4", "5", "6", "7", "8", "9">>[d + 1] = c
RECURSIVE ParseInt(_)
ParseInt(s) ==
    IF s = <<>> THEN 0
    ELSE 10 * ParseInt(Slice(s, 0, Len(s) - 1)) + DigitVal(s[Len(s)])

IsDigits(s) == s # <<>> /\ \A k \in 1..Len(s) : s[k] \in Digit

\* str(n)
RECURSIVE NatToStr(_)
NatToStr(n) ==
    IF n < 10 THEN <<<<"0", "1", "2", "3", "4", "5", "6", "7", "8", "9">>[n + 1]>>
    ELSE NatToStr(n \div 10) \o <<<<"0", "1", "2", "3", "4", "5", "6", "7", "8", "9">>[(n % 10) + 1]>>
IntToStr(n) == IF n < 0 THEN <<"-">> \o NatToStr(0 - n) ELSE NatToStr(n)

\* ------------------------------------------------------------------------
\* ComponentExtractor: the pattern library (src/component_extractor.py)
\* ------------------------------------------------------------------------

\* A match object's groupdict.  number holds the identifier group of the
\* pattern (number, letter or roman: each pattern has exactly one of them);
\* hasDesc says that the pattern has a description group, whose value is
\* NoneV when the group did not take part in the match.
NoMatch == [ok |-> FALSE, number |-> NoneV, title |-> NoneV,
            hasDesc |-> FALSE, description |-> NoneV]
Groups(n, t) == [ok |-> TRUE, number |-> n, title |-> t,
                 hasDesc |-> FALSE, description |-> NoneV]
GroupsIf(n, t) == IF t = NoneV THEN NoMatch ELSE Groups(n, t)

Roman == {"i", "v", "x", "I", "V", "X"}
Delim == {".", ")"}

\* \s+(?P<title>.+)$ tried after position p: the whitespace run is greedy
\* and gives one character back when nothing else is left for the title.
\* The title group, or NoneV when there is no match.
WsTitle(line, p) ==
    LET w == RunEnd(line, p, WS)
    IN  IF w > p /\ (w < Len(line) \/ w - p >= 2)
        THEN From(line, IF w < Len(line) THEN w ELSE w - 1)
        ELSE NoneV

\* <identifier>[.\)]\s+(?P<title>.+)$ with the identifier line[a:d]
DelimTitle(line, a, d) ==
    IF d > a /\ d < Len(line) /\ line[d + 1] \in Delim
    THEN GroupsIf(Slice(line, a, d), WsTitle(line, d + 1))
    ELSE NoMatch

\* a pattern list without pattern 1: nothing stands before pattern 5 then
C2_Pattern1Off(line) == NoMatch

\* ^(?P<number>\d+)[.\)]\s+(?P<title>.+)$
ComponentPattern1(line) == DelimTitle(line, 0, RunEnd(line, 0, Digit))

\* ^(?P<letter>[a-zA-Z])[.\)]\s+(?P<title>.+)$
ComponentPattern2(line) ==
    IF Len(line) >= 1 /\ line[1] \in Letter THEN DelimTitle(line, 0, 1)
    ELSE NoMatch

\* ^(?P<roman>[ivxIVX]+)[.\)]\s+(?P<title>.+)$
ComponentPattern3(line) == DelimTitle(line, 0, RunEnd(line, 0, Roman))

\* ^\s+(?P<number>\d+)[.\)]\s+(?P<title>.+)$
ComponentPattern4(line) ==
    LET a == RunEnd(line, 0, WS)
    IN  IF a >= 1 THEN DelimTitle(line, a, RunEnd(line, a, Digit)) ELSE NoMatch

\* ^(?P<number>\d+)[.\)]\s+(?P<title>[^(]+)(?:\((?P<description>[^)]+)\))?
\* (no $: a prefix of the line is matched).  d ends the number and w the
\* whitespace; the title line[ts:te] starts after the whitespace, or on its
\* last character when the next character cannot start the title; the
\* description, if the optional group takes part, is line[te+1:de].
ComponentPattern5(line) ==
    LET d  == RunEnd(line, 0, Digit)
        w  == RunEnd(line, d + 1, WS)
        ts == IF w < Len(line) /\ line[w + 1] # "(" THEN w ELSE w - 1
        te == RunEndNot(line, ts, {"("})
        de == RunEndNot(line, te + 1, {")"})
    IN  IF d >= 1 /\ d < Len(line) /\ line[d + 1] \in Delim
           /\ ts >= d + 2 /\ te > ts
        THEN [ok |-> TRUE, number |-> Slice(line, 0, d),
              title |-> Slice(line, ts, te), hasDesc |-> TRUE,
              description |->
                  IF te < Len(line) /\ line[te + 1] = "(" /\ de > te + 1
                     /\ de < Len(line) /\ line[de + 1] = ")"
                  THEN Slice(line, te + 1, de) ELSE NoneV]
        ELSE NoMatch

\* ^(?P<number>\d+):\s+(?P<title>.+)$
ComponentPattern6(line) ==
    LET d == RunEnd(line, 0, Digit)
    IN  IF d >= 1 /\ d < Len(line) /\ line[d + 1] = ":"
        THEN GroupsIf(Slice(line, 0, d), WsTitle(line, d + 1))
        ELSE NoMatch

\* ^(?P<number>\d+)\s*-\s+(?P<title>.+)$
ComponentPattern7(line) ==
    LET d == RunEnd(line, 0, Digit)
        e == RunEnd(line, d, WS)
    IN  IF d >= 1 /\ e < Len(line) /\ line[e + 1] = "-"
        THEN GroupsIf(Slice(line, 0, d), WsTitle(line, e + 1))
        ELSE NoMatch

\* ^(?P<number>\d+)[.\):](?P<title>.+)$
ComponentPattern8(line) ==
    LET d == RunEnd(line, 0, Digit)
    IN  IF d >= 1 /\ d < Len(line) /\ line[d + 1] \in (Delim \cup {":"})
           /\ Len(line) >= d + 2
        THEN Groups(Slice(line, 0, d), From(line, d + 1))
        ELSE NoMatch

\* self.component_patterns[k-1].match(line), in the order of the cascade
NumComponentPatterns == 8
component_patterns(k, line) ==
    CASE k = 1 -> ComponentPattern1(line)
      [] k = 2 -> ComponentPattern2(line)
      [] k = 3 -> ComponentPattern3(line)
      [] k = 4 -> ComponentPattern4(line)
      [] k = 5 -> ComponentPattern5(line)
      [] k = 6 -> ComponentPattern6(line)
      [] k = 7 -> ComponentPattern7(line)
      [] OTHER -> ComponentPattern8(line)

\* [\.\s\)\:\-] of the two fallback rules
FlexDelim == {".", ")", ":", "-"} \cup WS

\* re.match(r'^(\d+)[\.\s\)\:\-]+\s*(.+)$', s): the delimiter run s[d:e] is
\* greedy and gives its last character back when it reaches the end
MoreFlexibleMatch(s) ==
    LET d == RunEnd(s, 0, Digit)
        e == RunEnd(s, d, FlexDelim)
    IN  IF d >= 1 /\ e > d /\ (e < Len(s) \/ e - d >= 2)
        THEN Groups(Slice(s, 0, d), From(s, IF e < Len(s) THEN e ELSE e - 1))
        ELSE NoMatch

\* re.match(r'^(\d+)[\.\s\)\:\-]*\s*(.*)$', s)
NumberedMatch(s) ==
    LET d == RunEnd(s, 0, Digit)
    IN  IF d >= 1 THEN Groups(Slice(s, 0, d), From(s, RunEnd(s, d, FlexDelim)))
        ELSE NoMatch

\* Component.__init__: title.strip(), description.strip() if description
Component(number, title, description, raw_text) ==
    [number |-> number, title |-> Strip(title),
     description |-> IF Truthy(description) THEN Strip(description) ELSE NoneV,
     category |-> NoneV, raw_text |-> raw_text, children |-> <<>>]

NoComponent == [kind |-> "none", comp |-> NoneV, exc |-> "none"]
Raises(e) == [kind |-> "raise", comp |-> NoneV, exc |-> e]
Made(c) == [kind |-> "component", comp |-> c, exc |-> "none"]

\* the fallback rules of _parse_component_line, tried on line.strip() when
\* no pattern of the cascade returned a component: m and n are the matches
\* of the two rules
FallbackOutcome(line, m, n) ==
    IF m.ok THEN Made(Component(m.number, Strip(m.title), NoneV, line))
    ELSE IF n.ok /\ Strip(n.title) # <<>>
         THEN Made(Component(n.number, Strip(n.title), NoneV, line))
    ELSE NoComponent
ParseFallback(line) ==
    FallbackOutcome(line, MoreFlexibleMatch(Strip(line)), NumberedMatch(Strip(line)))

\* Whether the match g ends the pattern loop of _parse_component_line: the
\* pattern matched and either has a description group that did not take
\* part in the match (strip() is then called on None) or yields a number
\* and a non-empty stripped title.
EndsLoop(g) ==
    /\ g.ok
    /\ \/ g.hasDesc /\ g.description = NoneV
       \/ Truthy(g.number) /\ Strip(g.title) # <<>>

\* the outcome of the match that ends the loop
MatchOutcome(g, line) ==
    IF g.hasDesc /\ g.description = NoneV THEN Raises("AttributeError")
    ELSE Made(Component(g.number, Strip(g.title),
                        IF g.hasDesc THEN Strip(g.description) ELSE NoneV,
                        line))

\* hits: the patterns that end the loop; the first of them decides, and the
\* fallback rules follow when there is none
FirstHit(hits, line) ==
    IF hits = {} THEN ParseFallback(line)
    ELSE MatchOutcome(
             component_patterns(CHOOSE k \in hits : \A h \in hits : k <= h, line),
             line)

_parse_component_line(line) ==
    FirstHit({k \in 1..NumComponentPatterns : EndsLoop(component_patterns(k, line))},
             line)

\* ^(?P<category>[A-Z][A-Z\s]+):   (e ends the run of [A-Z\s])
CategoryPattern1(line) ==
    LET e == RunEnd(line, 1, Upper \cup WS)
    IN  IF Len(line) >= 1 /\ line[1] \in Upper /\ e >= 2
           /\ e < Len(line) /\ line[e + 1] = ":"
        THEN Slice(line, 0, e) ELSE NoneV

\* ^(?P<category>[A-Z][A-Z\s]+)$
CategoryPattern2(line) ==
    IF Len(line) >= 2 /\ line[1] \in Upper
       /\ RunEnd(line, 1, Upper \cup WS) = Len(line)
    THEN line ELSE NoneV

\* ^(?P<prefix>[IVX]+\.)\s*(?P<category>[A-Z][A-Z\s]+)
\* (r ends the numeral, w the whitespace, e the category)
CategoryPattern3(line) ==
    LET r == RunEnd(line, 0, {"I", "V", "X"})
        w == RunEnd(line, r + 1, WS)
        e == RunEnd(line, w + 1, Upper \cup WS)
    IN  IF r >= 1 /\ r < Len(line) /\ line[r + 1] = "."
           /\ w < Len(line) /\ line[w + 1] \in Upper /\ e >= w + 2
        THEN Slice(line, w, e) ELSE NoneV

\* the first pattern that matches gives the stripped category group
FirstCategory(c1, c2, c3) ==
    IF c1 # NoneV THEN Strip(c1)
    ELSE IF c2 # NoneV THEN Strip(c2)
    ELSE IF c3 # NoneV THEN Strip(c3)
    ELSE NoneV
_match_category(line) ==
    FirstCategory(CategoryPattern1(line), CategoryPattern2(line),
                  CategoryPattern3(line))

\* re.match(r'^\d+[.\)]\s+', line): a numbered component start
IsNumberedStart(line) ==
    LET d == RunEnd(line, 0, Digit)
    IN  d >= 1 /\ d + 1 < Len(line) /\ line[d + 1] \in Delim /\ line[d + 2] \in WS

\* re.match(r'^(\d+)[.\)]\s*$', line.strip()): group 1, or NoneV
StandaloneNumber(line) ==
    LET d == RunEnd(Strip(line), 0, Digit)
    IN  IF d >= 1 /\ Len(Strip(line)) = d + 1 /\ Strip(line)[d + 1] \in Delim
        THEN Slice(Strip(line), 0, d) ELSE NoneV

\* ------------------------------------------------------------------------
\* ComponentExtractor._post_process_components: the title repair pass
\* ------------------------------------------------------------------------

KnownNumbers == {<<"1">>, <<"2">>, <<"3">>, <<"4">>, <<"5">>}
known_titles(n) ==
    CASE n = <<"1">> -> <<"V", "i", "s", "i", "o", "n", " ", "a", "n", "d", " ", "M", "i", "s", "s", "i", "o", "n", " ", "o", "f", " ", "t", "h", "e", " ", "U", "n", "i", "v", "e", "r", "s", "i", "t", "y", " ", "a", "n", "d", " ", "D", "e", "p", "a", "r", "t", "m", "e", "n", "t">>
      [] n = <<"2">> -> <<"F", "a", "c", "u", "l", "t", "y", " ", "p", "r", "o", "f", "i", "l", "e", "s", " ", "a", "n", "d", " ", "i", "n", "d", "i", "v", "i", "d", "u", "a", "l", " ", "t", "i", "m", "e", "t", "a", "b", "l", "e", "s">>
      [] n = <<"3">> -> <<"C", "o", "u", "r", "s", "e", " ", "h", "a", "n", "d", "o", "u", "t", " ", "a", "n", "d", " ", "c", "l", "o", "s", "u", "r", "e", " ", "r", "e", "p", "o", "r", "t">>
      [] n = <<"4">> -> <<"N", "a", "m", "e", " ", "l", "i", "s", "t", " ", "o", "f", " ", "s", "t", "u", "d", "e", "n", "t", "s", " ", "(", "s", "e", "c", "t", "i", "o", "n", " ", "w", "i", "s", "e", ")">>
      [] OTHER -> <<"M", "i", "d", " ", "T", "e", "r", "m", " ", "E", "x", "a", "m", " ", "q", "u", "e", "s", "t", "i", "o", "n", " ", "p", "a", "p", "e", "r", "s">>

ShortTitleLen == 15

\* a first pass that writes the predefined title into raw_text as well
C23_FixRewritesRaw(c) ==
    IF c.number \in KnownNumbers /\ Len(Strip(c.title)) < ShortTitleLen
    THEN [c EXCEPT !.title = known_titles(c.number),
                   !.raw_text = known_titles(c.number)]
    ELSE c

\* first pass: a known number whose title starts with "(", mentions
\* "teaching" or is shorter than 15 characters gets the predefined title
KnownTitleFix(c) ==
    IF c.number \in KnownNumbers
       /\ (\/ StartsWith(c.title, <<"(">>)
           \/ Contains(ToLower(c.title), <<"t", "e", "a", "c", "h", "i", "n", "g">>)
           \/ Len(Strip(c.title)) < ShortTitleLen)
    THEN [c EXCEPT !.title = known_titles(c.number)]
    ELSE c

\* re.match(r'^\d+\.?\s*$', title)
IsBareNumber(t) ==
    LET d == RunEnd(t, 0, Digit)
        e == IF d < Len(t) /\ t[d + 1] = "." THEN d + 1 ELSE d
    IN  d >= 1 /\ RunEnd(t, e, WS) = Len(t)

\* re.sub(r'\([^)]*\)', '', s)
RECURSIVE RemoveParens(_)
RemoveParens(s) ==
    LET a == RunEndNot(s, 0, {"("})
        b == RunEndNot(s, a + 1, {")"})
    IN  IF a < Len(s) /\ b < Len(s)
        THEN Slice(s, 0, a) \o RemoveParens(From(s, b + 1))
        ELSE s

ContinuationVerbs == {<<"i", "s", " ">>, <<"a", "r", "e", " ">>, <<"w", "a", "s", " ">>, <<"w", "e", "r", "e", " ">>, <<"t", "e", "a", "c", "h", "i", "n", "g", " ">>}
StartsWithVerb(t) == \E v \in ContinuationVerbs : StartsWith(ToLower(t), v)

SubstantialWords == 3
\* ' '.join(t.split()[:3])
FirstWords(t) ==
    Join(SubSeq(SplitWords(t), 1, Min(SubstantialWords, Len(SplitWords(t)))), <<" ">>)
IsSubstantial(t) ==
    Len(SplitWords(t)) >= SubstantialWords /\ ~StartsWith(t, <<"(">>)

TopicLookback == 3

\* the scan of up to three earlier components for a title of at least
\* three words (range(max(0, i-3), i), first hit wins); <<>> when none
RECURSIVE TopicScan(_, _, _)
TopicScan(comps, j, i) ==
    IF j >= i THEN <<>>
    ELSE IF Len(SplitWords(comps[j + 1].title)) >= SubstantialWords
         THEN FirstWords(comps[j + 1].title)
    ELSE TopicScan(comps, j + 1, i)

\* main_topic as the continuation-verb branch leaves it, for the component
\* at 0-based index i with the title it had when the iteration began
TopicLookup(st, i, title) ==
    IF StartsWithVerb(title) /\ ~StartsWith(title, <<"(">>) /\ i > 0
       /\ st.main_topic = <<>> /\ i > 1
    THEN TopicScan(st.comps, Max(0, i - TopicLookback), i)
    ELSE st.main_topic

\* the contextual rewrite of a title: the parenthesis rule, else the
\* continuation-verb rule
Rewritten(i, title, prev, topic) ==
    IF StartsWith(title, <<"(">>)
    THEN IF i > 0 /\ prev # <<>>
         THEN Strip(RemoveParens(prev)) \o <<" ">> \o title
         ELSE title
    ELSE IF StartsWithVerb(title) /\ i > 0
         THEN IF topic # <<>> THEN topic \o <<" ", "-", " ">> \o title
              ELSE prev \o <<" ", "-", " ">> \o title
    ELSE title

\* one iteration of the second pass, for the component at 0-based index i;
\* st holds the component list and the two rolling strings
RepairWith(st, i, title, prev, topic) ==
    IF i = 0 /\ (Contains(ToLower(title), <<"c", "o", "n", "t", "e", "n", "t", "s">>)
                 \/ Contains(ToLower(title), <<"n", "o">>))
    THEN st
    ELSE IF IsBareNumber(title)
    THEN IF i > 0 /\ prev # <<>>
         THEN [st EXCEPT !.comps[i + 1].title = prev \o <<" ", "(", "c", "o", "n", "t", "i", "n", "u", "e", "d", ")">>]
         ELSE st
    ELSE [comps |-> [st.comps EXCEPT
                        ![i + 1].title = Rewritten(i, title, prev, topic)],
          previous_title |-> IF IsSubstantial(title) THEN title ELSE prev,
          main_topic |-> IF IsSubstantial(title) /\ topic = <<>>
                         THEN FirstWords(title) ELSE topic]

RepairStep(st, i) ==
    RepairWith(st, i, st.comps[i + 1].title, st.previous_title,
               TopicLookup(st, i, st.comps[i + 1].title))

RECURSIVE RepairFrom(_, _)
RepairFrom(st, i) ==
    IF i >= Len(st.comps) THEN st ELSE RepairFrom(RepairStep(st, i), i + 1)

\* re.sub(r'\s+', ' ', s)
RECURSIVE CollapseSpaces(_)
CollapseSpaces(s) ==
    LET a == RunEndNot(s, 0, WS)
        b == RunEnd(s, a, WS)
    IN  IF a >= Len(s) THEN s
        ELSE Slice(s, 0, a) \o <<" ">> \o CollapseSpaces(From(s, b))

Punct == {"-", EnDash, ".", ",", ";", ":"}

\* the end of the longest match of (\s+[\-...:]+)* that starts after p
RECURSIVE PunctChainEnd(_, _)
PunctChainEnd(s, p) ==
    LET w == RunEnd(s, p, WS)
        q == RunEnd(s, w, Punct)
    IN  IF w > p /\ q > w THEN PunctChainEnd(s, q) ELSE p

\* re.sub(r'[\-...:]+(\s+[\-...:]+)+', '. ', s): every leftmost chain of two
\* or more punctuation runs separated by whitespace becomes ". "
RECURSIVE CollapsePunct(_)
CollapsePunct(s) ==
    LET a == RunEndNot(s, 0, Punct)
        b == RunEnd(s, a, Punct)
        e == PunctChainEnd(s, b)
    IN  IF a >= Len(s) THEN s
        ELSE IF e > b
             THEN Slice(s, 0, a) \o <<".", " ">> \o CollapsePunct(From(s, e))
        ELSE Slice(s, 0, b) \o CollapsePunct(From(s, b))

\* the three passes in turn
CleanupAll(comps) ==
    [k \in 1..Len(comps) |->
        [comps[k] EXCEPT !.title = CollapsePunct(CollapseSpaces(comps[k].title))]]
RepairAll(comps) ==
    RepairFrom([comps |-> comps, previous_title |-> <<>>, main_topic |-> <<>>],
               0).comps
FixAll(comps) == [k \in 1..Len(comps) |-> KnownTitleFix(comps[k])]
_post_process_components(comps) == CleanupAll(RepairAll(FixAll(comps)))

\* ------------------------------------------------------------------------
\* ComponentExtractor: extract_components_from_text and
\* organize_by_categories
\* ------------------------------------------------------------------------

\* A component is known to the categories by its position in
\* self.components (the objects are shared by reference, never copied).
\* ComponentCategory.__init__: name.strip(), components or []
ComponentCategory(name, members) == [name |-> Strip(name), components |-> members]

\* the locals of a running extract_components_from_text call together with
\* the two instance fields it writes
StartFrame ==
    [components |-> <<>>, categories |-> <<>>, i |-> 0,
     current_category |-> NoneV, category_components |-> <<>>,
     pending_number |-> NoneV, exc |-> "none"]

\* a closing that does not ask whether the category has components
C3_CloseEmptyToo(f) ==
    IF Truthy(f.current_category)
    THEN Append(f.categories,
                ComponentCategory(f.current_category, f.category_components))
    ELSE f.categories

\* the `if current_category and category_components` append that closes
\* the open category
CloseCategory(f) ==
    IF Truthy(f.current_category) /\ f.category_components # <<>>
    THEN Append(f.categories,
                ComponentCategory(f.current_category, f.category_components))
    ELSE f.categories

\* an append that leaves the open category out
C9_AddOutsideCategory(f, c) == [f EXCEPT !.components = Append(@, c), !.i = @ + 1]

\* self.components.append(component), and category_components.append when a
\* category is open
AddComponent(f, c) ==
    [f EXCEPT !.components = Append(@, c),
              !.category_components =
                  IF Truthy(f.current_category)
                  THEN Append(@, Len(f.components) + 1) ELSE @,
              !.i = @ + 1]

\* the component check of the loop body: parsed is what
\* _parse_component_line returned or raised
AddParsed(f, parsed) ==
    IF parsed.kind = "raise" THEN [f EXCEPT !.exc = parsed.exc]
    ELSE IF parsed.kind = "component" THEN AddComponent(f, parsed.comp)
    ELSE [f EXCEPT !.i = @ + 1]

\* a header that leaves category_components as it is
C21_HeaderKeepsMembers(f, line, cat, num) ==
    IF cat # NoneV
    THEN [f EXCEPT !.categories = CloseCategory(f),
                   !.current_category = cat,
                   !.i = @ + 1]
    ELSE IF num # NoneV
    THEN [f EXCEPT !.pending_number = num, !.i = @ + 1]
    ELSE AddParsed(f, _parse_component_line(line))

\* the body of the while loop from the category check on (the pending
\* number, if any, has been dealt with): cat is _match_category(line) and
\* num the group of the standalone number match
ClassifyWith(f, line, cat, num) ==
    IF cat # NoneV
    THEN [f EXCEPT !.categories = CloseCategory(f),
                   !.current_category = cat,
                   !.category_components = <<>>,
                   !.i = @ + 1]
    ELSE IF num # NoneV
    THEN [f EXCEPT !.pending_number = num, !.i = @ + 1]
    ELSE AddParsed(f, _parse_component_line(line))
ClassifyLine(f, line) ==
    ClassifyWith(f, line, _match_category(line), StandaloneNumber(line))

\* a loop that never merges a line with the pending number
C8_NeverMerges(line) == FALSE

\* whether a line met with a pending number is merged with it
MergesWithPending(line) == _match_category(line) = NoneV /\ ~IsNumberedStart(line)

\* one iteration of the while loop, on line = lines[i].rstrip(): a blank
\* line is skipped; a pending number is merged or discarded (it is None
\* already when there is none), and a line that was not merged is classified
LineStepOn(f, line) ==
    IF Strip(line) = <<>> THEN [f EXCEPT !.i = @ + 1]
    ELSE IF Truthy(f.pending_number) /\ MergesWithPending(line)
    THEN [AddComponent(f,
              Component(f.pending_number, Strip(line), NoneV,
                        f.pending_number \o <<".", " ">> \o Strip(line)))
          EXCEPT !.pending_number = NoneV]
    ELSE ClassifyLine([f EXCEPT !.pending_number = NoneV], line)
LineStep(f, raw) == LineStepOn(f, RStrip(raw))

\* what follows the loop: the final category, then the repair pass
FinishFrame(f) ==
    [f EXCEPT !.categories = CloseCategory(f),
              !.components = _post_process_components(f.components)]

\* extract_components_from_text(t) run alone on a new ComponentExtractor:
\* the frame it ends with (exc says whether it raised)
RECURSIVE RunLoop(_, _)
RunLoop(f, ls) ==
    IF f.exc # "none" \/ f.i >= Len(ls) THEN f
    ELSE RunLoop(LineStep(f, ls[f.i + 1]), ls)
FinishIfRan(f) == IF f.exc # "none" THEN f ELSE FinishFrame(f)
FreshRun(t) == FinishIfRan(RunLoop(StartFrame, SplitOn(t, NL)))

BucketSize == 10

\* a name whose upper end is not bounded by the number of components
C10_NameByTens(category_id, n) ==
    <<"C", "o", "m", "p", "o", "n", "e", "n", "t", "s", " ">> \o IntToStr(category_id * 10 + 1) \o <<"-">>
        \o IntToStr((category_id + 1) * 10)

\* f"Components {category_id*10+1}-{min((category_id+1)*10, len(self.components))}"
BucketName(category_id, n) ==
    <<"C", "o", "m", "p", "o", "n", "e", "n", "t", "s", " ">> \o IntToStr(category_id * BucketSize + 1) \o <<"-">>
        \o IntToStr(Min((category_id + 1) * BucketSize, n))

\* numeric_categories after component k, of category_id id, is added: a new
\* category named for a list of n components, or one more member
AddToBucket(acc, id, k, n) ==
    IF \A j \in 1..Len(acc) : acc[j].id # id
    THEN Append(acc, [id |-> id,
                      cat |-> ComponentCategory(BucketName(id, n), <<k>>)])
    ELSE [j \in 1..Len(acc) |->
             IF acc[j].id = id
             THEN [acc[j] EXCEPT !.cat.components = Append(@, k)]
             ELSE acc[j]]

\* the loop of organize_by_categories over self.components[k..]; acc is
\* numeric_categories in insertion order, each with its category_id; a
\* component whose number int() rejects is skipped
RECURSIVE BucketFrom(_, _, _)
BucketFrom(comps, k, acc) ==
    IF k > Len(comps) THEN acc
    ELSE IF ~IsDigits(Strip(comps[k].number)) THEN BucketFrom(comps, k + 1, acc)
    ELSE BucketFrom(comps, k + 1,
             AddToBucket(acc, (ParseInt(Strip(comps[k].number)) - 1) \div BucketSize,
                         k, Len(comps)))

organize_by_categories(comps, cats) ==
    IF cats = <<>>
    THEN [j \in 1..Len(BucketFrom(comps, 1, <<>>)) |->
             BucketFrom(comps, 1, <<>>)[j].cat]
    ELSE cats


\* Component.__str__
Component_str(c) ==
    c.number \o <<".", " ">> \o c.title
        \o (IF Truthy(c.description)
            THEN <<NL>> \o <<" ", " ", " ">> \o c.description ELSE <<>>)

\* the output list of display_components when categories exist: for each
\* category its header, then its members
RECURSIVE CategoryLines(_, _)
CategoryLines(comps, cats) ==
    IF cats = <<>> THEN <<>>
    ELSE << <<NL>> \o <<"=", "=", "=", " ">> \o cats[1].name \o <<" ", "=", "=", "=">> >>
         \o [m \in 1..Len(cats[1].components) |->
                Component_str(comps[cats[1].components[m]])]
         \o CategoryLines(comps, Tail(cats))

display_components(comps, cats) ==
    IF comps = <<>> THEN <<"N", "o", " ", "c", "o", "m", "p", "o", "n", "e", "n", "t", "s", " ", "f", "o", "u", "n", "d", ".">>
    ELSE IF cats # <<>> THEN Join(CategoryLines(comps, cats), <<NL>>)
    ELSE Join([k \in 1..Len(comps) |-> Component_str(comps[k])], <<NL>>)
\* ------------------------------------------------------------------------
\* TOCExtractor: the TOC patterns (src/toc_extractor.py)
\* ------------------------------------------------------------------------

\* Every TOC pattern is  <prefix or indent> (?P<title>.*?) <tail>  where the
\* tail is \.{2,}(?P<page>\d+)$ or \s+(?P<page>\d+)$.  The page group is the
\* trailing digit run line[ds:], the separator run before it starts at ss,
\* and a title can start at any position up to limit.
TocTailAt(line, sep, least, ds) ==
    [ok    |-> ds < Len(line) /\ ds - TrailingRunStart(line, ds, sep) >= least,
     ds    |-> ds,
     ss    |-> TrailingRunStart(line, ds, sep),
     limit |-> ds - least]
DotsTail(line) == TocTailAt(line, {"."}, 2, TrailingRunStart(line, Len(line), Digit))
WsTail(line) == TocTailAt(line, WS, 1, TrailingRunStart(line, Len(line), Digit))

TocNoMatch == [ok |-> FALSE, prefix |-> NoneV, indent |-> NoneV,
               title |-> NoneV, page |-> NoneV]

\* The places where the greedy prefix (or indent) can end, in the order the
\* matcher tries them: hi down to lo, then the members of more (all below
\* lo) from the largest down.  Nowhere == no way to match the group.
Ends(lo, hi, more) == [lo |-> lo, hi |-> hi, more |-> more]
Nowhere == Ends(1, 0, {})

\* the first end the matcher reaches from which the rest of the pattern
\* matches, that is the largest one not above limit; 0 when there is none
SetMax(S) == CHOOSE m \in S : \A e \in S : e <= m
FirstEnd(c, limit) ==
    IF c.lo <= c.hi /\ c.lo <= limit THEN Min(c.hi, limit)
    ELSE IF \E e \in c.more : e <= limit
    THEN SetMax({e \in c.more : e <= limit})
    ELSE 0

\* the groupdict of a pattern with an optional prefix group that ends at p
\* (p = 0: the group takes no part); the lazy title stops as early as the
\* tail allows
PrefixGroups(line, tail, p) ==
    IF tail.ok
    THEN [ok |-> TRUE,
          prefix |-> IF p > 0 THEN Slice(line, 0, p) ELSE NoneV,
          indent |-> NoneV,
          title |-> Slice(line, p, Max(p, tail.ss)),
          page |-> From(line, tail.ds)]
    ELSE TocNoMatch
WithPrefix(line, tail, c) == PrefixGroups(line, tail, FirstEnd(c, tail.limit))

\* the groupdict of a pattern with the mandatory indent group line[0:p]
IndentGroups(line, tail, p) ==
    IF tail.ok /\ p > 0
    THEN [ok |-> TRUE, prefix |-> NoneV, indent |-> Slice(line, 0, p),
          title |-> Slice(line, p, Max(p, tail.ss)),
          page |-> From(line, tail.ds)]
    ELSE TocNoMatch
WithIndent(line, tail, w) ==
    IndentGroups(line, tail, FirstEnd(Ends(2, w, {}), tail.limit))

\* (?:\d+\.)+ from position p: where the repetitions end (p when none)
RECURSIVE NumDotEnd(_, _, _)
NumDotEnd(s, p, d) ==
    IF d > p /\ d < Len(s) /\ s[d + 1] = "."
    THEN NumDotEnd(s, d + 1, RunEnd(s, d + 1, Digit))
    ELSE p

\* (?:\d+\.)+\s*  with the repetitions ending at g: the whitespace is given
\* back first, then the repetitions one by one
NumberingEnds(line, g) ==
    IF g > 0
    THEN Ends(g, RunEnd(line, g, WS), {e \in 1..(g - 1) : line[e] = "."})
    ELSE Nowhere

\* Pattern 1: (?P<prefix>(?:\d+\.)+\s*)?(?P<title>.*?)\.{2,}(?P<page>\d+)$
TocPattern1(line) ==
    WithPrefix(line, DotsTail(line),
        NumberingEnds(line, NumDotEnd(line, 0, RunEnd(line, 0, Digit))))

\* <start>\.?\s+ with <start> = line[0:d], d > a: the ends of the prefix
DotWsEndsAt(line, e) ==
    IF RunEnd(line, e, WS) > e THEN Ends(e + 1, RunEnd(line, e, WS), {})
    ELSE Nowhere
DotWsEnds(line, a, d) ==
    IF d > a
    THEN DotWsEndsAt(line, IF d < Len(line) /\ line[d + 1] = "." THEN d + 1 ELSE d)
    ELSE Nowhere

\* (?:(?:Chapter|Section|Part)\s+)? at the start of the line: where it ends
\* when a digit follows (0 otherwise, which is also the group left out)
Keywords == {<<"C", "h", "a", "p", "t", "e", "r">>, <<"S", "e", "c", "t", "i", "o", "n">>, <<"P", "a", "r", "t">>}
KeywordWsEnd(line, k) ==
    IF RunEnd(line, k, WS) > k /\ RunEnd(line, k, WS) < Len(line)
       /\ line[RunEnd(line, k, WS) + 1] \in Digit
    THEN RunEnd(line, k, WS) ELSE 0
KeywordEnd(line) ==
    IF \E kw \in Keywords : StartsWith(line, kw)
    THEN KeywordWsEnd(line, Len(CHOOSE kw \in Keywords : StartsWith(line, kw)))
    ELSE 0

\* Pattern 2: (?P<prefix>(?:(?:Chapter|Section|Part)\s+)?\d+\.?\s+)?
\*            (?P<title>.*?)\s+(?P<page>\d+)$
TocPattern2(line) ==
    WithPrefix(line, WsTail(line),
        DotWsEnds(line, KeywordEnd(line), RunEnd(line, KeywordEnd(line), Digit)))

\* Pattern 3: (?P<prefix>[IVXivx]+\.?\s+)?(?P<title>.*?)\s+(?P<page>\d+)$
TocPattern3(line) ==
    WithPrefix(line, WsTail(line), DotWsEnds(line, 0, RunEnd(line, 0, Roman)))

\* (?:\.\d+)+ from position p: where the repetitions end (p when none)
RECURSIVE DotNumEnd(_, _)
DotNumEnd(s, p) ==
    IF p < Len(s) /\ s[p + 1] = "." /\ RunEnd(s, p + 1, Digit) > p + 1
    THEN DotNumEnd(s, RunEnd(s, p + 1, Digit))
    ELSE p

\* [A-Z](?:\.\d+)+\s+ with the repetitions ending at g
AlnumEnds(line, g) ==
    IF Len(line) >= 1 /\ line[1] \in Upper /\ g > 1 /\ RunEnd(line, g, WS) > g
    THEN Ends(g + 1, RunEnd(line, g, WS), {})
    ELSE Nowhere

\* Pattern 4: (?P<prefix>[A-Z](?:\.\d+)+\s+)?(?P<title>.*?)\s+(?P<page>\d+)$
TocPattern4(line) ==
    WithPrefix(line, WsTail(line), AlnumEnds(line, DotNumEnd(line, 1)))

\* Pattern 5: ^(?P<indent>\s{2,})(?P<title>.*?)\.{2,}(?P<page>\d+)$
TocPattern5(line) == WithIndent(line, DotsTail(line), RunEnd(line, 0, WS))

\* Pattern 6: ^(?P<indent>\s{2,})(?P<title>.*?)\s+(?P<page>\d+)$
TocPattern6(line) == WithIndent(line, WsTail(line), RunEnd(line, 0, WS))

NumTocPatterns == 6
toc_patterns(k, line) ==
    CASE k = 1 -> TocPattern1(line)
      [] k = 2 -> TocPattern2(line)
      [] k = 3 -> TocPattern3(line)
      [] k = 4 -> TocPattern4(line)
      [] k = 5 -> TocPattern5(line)
      [] k = 6 -> TocPattern6(line)

\* ------------------------------------------------------------------------
\* TOCExtractor._parse_toc_line
\* ------------------------------------------------------------------------

TOCEntry(level, title, page_num, raw_text) ==
    [level |-> level, title |-> Strip(title), page_num |-> page_num,
     raw_text |-> raw_text, children |-> <<>>]

\* the level of a match: the dots of the stripped prefix (1 when it has
\* none), else half the indent, else 0
PrefixLevel(prefix) ==
    IF CountChar(prefix, ".") = 0 /\ prefix # <<>> THEN 1
    ELSE CountChar(prefix, ".")
MatchLevel(g) ==
    IF Truthy(g.prefix) THEN PrefixLevel(Strip(g.prefix))
    ELSE IF Truthy(g.indent) THEN Len(g.indent) \div 2
    ELSE 0

\* a pattern ends the loop when it matches with a title that is not blank
GivesEntry(g) == g.ok /\ Strip(g.title) # <<>>
\* (the result of _parse_toc_line is a list: empty for None, else the entry)
EntryOf(g, line) == <<TOCEntry(MatchLevel(g), g.title, ParseInt(g.page), line)>>

\* re.search(r'(\S+)\s+(\d+)$', line): the match starts where the last word
\* before the page number starts; the entry takes what precedes that word
LastResortAt(line, tail, rs) ==
    IF tail.ok /\ rs < tail.ss
    THEN <<TOCEntry((Len(line) - Len(LStrip(line))) \div 2, Slice(line, 0, rs),
                    ParseInt(From(line, tail.ds)), line)>>
    ELSE <<>>
NonWsStart(line, p) ==
    CHOOSE r \in 0..p : /\ \A k \in (r + 1)..p : line[k] \notin WS
                        /\ (r = 0 \/ line[r] \in WS)
LastResort(line) ==
    LastResortAt(line, WsTail(line), NonWsStart(line, WsTail(line).ss))

FirstEntry(hits, line) ==
    IF hits = {} THEN LastResort(line)
    ELSE EntryOf(toc_patterns(CHOOSE k \in hits : \A h \in hits : k <= h, line), line)
_parse_toc_line(line) ==
    FirstEntry({k \in 1..NumTocPatterns : GivesEntry(toc_patterns(k, line))}, line)

\* ------------------------------------------------------------------------
\* TOCExtractor._determine_hierarchy and _extract_toc
\* ------------------------------------------------------------------------

\* list.index(x) on the list as the sort key sees it: entries are compared
\* by identity, so x is found at its own position k if the list shows it
IndexIn(seen, k) == IF k <= Len(seen) THEN k ELSE 0

\* The list as the key function sees it while list.sort runs.  Looking at a
\* list that is being sorted has no defined effect in the language; CPython
\* shows it empty, so that index() raises ValueError, and an implementation
\* that shows the list lets the sort go through.
SortViews(entries) == {<<>>, entries}

\* toc_entries.sort(key=lambda x: (x.level, index(x))): the positions of
\* entries in sorted order (a stable order by level)
Before(entries, a, b) ==
    \/ entries[a].level < entries[b].level
    \/ entries[a].level = entries[b].level /\ a < b
SortedOrder(entries) ==
    [r \in 1..Len(entries) |->
        CHOOSE a \in 1..Len(entries) :
            Cardinality({b \in 1..Len(entries) : Before(entries, b, a)}) = r - 1]
SortByLevel(entries) == [r \in 1..Len(entries) |-> entries[SortedOrder(entries)[r]]]

\* the parent the loop finds for an entry of the given level: the largest
\* level below it with a last entry recorded, 0 standing for "no parent".
\* last maps a level to the position of its last entry (0 for None).
ParentLevels(last, level) ==
    {l \in 0..(level - 1) : l \in DOMAIN last /\ last[l] # 0}
C27_ParentSameLevel(last, level) ==
    IF level \in DOMAIN last THEN last[level] ELSE 0
ParentOf(last, level) ==
    IF ParentLevels(last, level) = {} THEN 0
    ELSE last[SetMax(ParentLevels(last, level))]

\* one iteration of the building loop, for the entry at position k of the
\* sorted list: h = [nodes, roots, last], the children of a node being the
\* positions of its child entries
Attach(h, k, level, parent) ==
    [nodes |-> IF parent = 0 THEN h.nodes
               ELSE [h.nodes EXCEPT ![parent].children = Append(@, k)],
     roots |-> IF parent = 0 THEN Append(h.roots, k) ELSE h.roots,
     last  |-> [l \in DOMAIN h.last \cup {level} |->
                   IF l = level THEN k ELSE h.last[l]]]
PlaceEntry(h, k, level) ==
    Attach(h, k, level, IF level = 0 THEN 0 ELSE ParentOf(h.last, level))
RECURSIVE BuildFrom(_, _)
BuildFrom(h, k) ==
    IF k > Len(h.nodes) THEN h
    ELSE BuildFrom(PlaceEntry(h, k, h.nodes[k].level), k + 1)

\* the entry at position k with its children as entries
RECURSIVE Tree(_, _)
Tree(nodes, k) ==
    [nodes[k] EXCEPT !.children =
        [j \in 1..Len(nodes[k].children) |-> Tree(nodes, nodes[k].children[j])]]
RootsOf(h) == [j \in 1..Len(h.roots) |-> Tree(h.nodes, h.roots[j])]
Hierarchy(sorted) ==
    RootsOf(BuildFrom([nodes |-> sorted, roots |-> <<>>, last |-> (0 :> 0)], 1))

\* _determine_hierarchy on the flat list, the sort key seeing the list as
\* seen: what toc_entries is afterwards, and whether ValueError was raised
_determine_hierarchy(entries, seen) ==
    IF \E k \in 1..Len(entries) : IndexIn(seen, k) = 0
    THEN [toc_entries |-> entries, exc |-> "ValueError"]
    ELSE [toc_entries |-> Hierarchy(SortByLevel(entries)), exc |-> "none"]

\* the first pass of _extract_toc: lines that are blank or shorter than 5
\* characters when stripped are skipped
MinTocLine == 5
TocCandidate(raw) == Len(Strip(raw)) >= MinTocLine
RECURSIVE TocPass(_, _)
TocPass(ls, acc) ==
    IF ls = <<>> THEN acc
    ELSE TocPass(Tail(ls),
             IF TocCandidate(ls[1])
             THEN acc \o _parse_toc_line(RStrip(ls[1])) ELSE acc)
FlatEntries(t) == TocPass(SplitOn(t, NL), <<>>)

\* ------------------------------------------------------------------------
\* TOCExtractor._extract_index and _parse_page_refs
\* ------------------------------------------------------------------------

\* \d+(?:-\d+)? from position p: where it ends (p when there is no match)
PageItemDash(s, p, d) ==
    IF d > p /\ d < Len(s) /\ s[d + 1] = "-" /\ RunEnd(s, d + 1, Digit) > d + 1
    THEN RunEnd(s, d + 1, Digit) ELSE d

\* \d+(?:-\d+)?(?:,\s*\d+(?:-\d+)?)*$ from position p
RECURSIVE IsPageList(_, _)
PageListRest(s, e) ==
    \/ e = Len(s)
    \/ s[e + 1] = "," /\ IsPageList(s, RunEnd(s, e + 1, WS))
IsPageList(s, p) ==
    /\ PageItemDash(s, p, RunEnd(s, p, Digit)) > p
    /\ PageListRest(s, PageItemDash(s, p, RunEnd(s, p, Digit)))

\* the commas of the line from position p on after which only whitespace
\* and a page list follow
PageCommas(line, p) ==
    {c \in (p + 1)..Len(line) :
        line[c] = "," /\ IsPageList(line, RunEnd(line, c, WS))}

\* the groups of an index pattern whose lazy term starts at p: the term
\* ends at the first such comma
IndexGroups(line, p, commas) ==
    IF commas = {} THEN [ok |-> FALSE, term |-> NoneV, pages |-> NoneV]
    ELSE [ok |-> TRUE,
          term |-> Slice(line, p, (CHOOSE c \in commas : \A e \in commas : c <= e) - 1),
          pages |-> From(line, RunEnd(line,
                        CHOOSE c \in commas : \A e \in commas : c <= e, WS))]

\* index pattern 1: (?P<term>.*?),\s*(?P<pages>...)$
IndexPattern1(line) == IndexGroups(line, 0, PageCommas(line, 0))

\* index pattern 2: ^\s{2,}(?P<subterm>.*?),\s*(?P<pages>...)$; the indent is
\* the whole whitespace run (a shorter one leaves the same commas)
IndexPattern2(line) ==
    LET p == RunEnd(line, 0, WS)
    IN  IF p >= 2 THEN IndexGroups(line, p, PageCommas(line, p))
        ELSE [ok |-> FALSE, term |-> NoneV, pages |-> NoneV]

\* a page reference is an int or, when a chunk could not be parsed, the
\* chunk itself
PageInt(n) == [kind |-> "int", n |-> n, s |-> <<>>]
PageStr(s) == [kind |-> "str", n |-> 0, s |-> s]

\* a range that contributes its two ends only
C7_RangeEndsOnly(a, b) == <<PageInt(a), PageInt(b)>>

\* range(start, end + 1) as page references
RangeRefs(a, b) == [k \in 1..(IF b >= a THEN b - a + 1 ELSE 0) |-> PageInt(a + k - 1)]

\* the references one chunk adds
RangeChunk(chunk, parts) ==
    IF Len(parts) = 2 /\ IsDigits(Strip(parts[1])) /\ IsDigits(Strip(parts[2]))
    THEN RangeRefs(ParseInt(Strip(parts[1])), ParseInt(Strip(parts[2])))
    ELSE <<PageStr(chunk)>>
ChunkRefs(chunk) ==
    IF \E k \in 1..Len(chunk) : chunk[k] = "-"
    THEN RangeChunk(chunk, SplitOn(chunk, "-"))
    ELSE IF IsDigits(chunk) THEN <<PageInt(ParseInt(chunk))>>
    ELSE IF chunk # <<>> THEN <<PageStr(chunk)>>
    ELSE <<>>

RECURSIVE RefsOf(_)
RefsOf(chunks) ==
    IF chunks = <<>> THEN <<>>
    ELSE ChunkRefs(Strip(chunks[1])) \o RefsOf(Tail(chunks))
_parse_page_refs(pages_str) ==
    IF ~Truthy(pages_str) THEN <<>> ELSE RefsOf(SplitOn(pages_str, ","))

IndexEntry(term, page_refs) ==
    [term |-> Strip(term), page_refs |-> page_refs, subentries |-> <<>>]

\* an assignment that adds an entry even when the term is there already
C12_AppendAlways(d, key, entry) == Append(d, entry)

\* an assignment that moves the entry of a term that is there to the end
C28_MoveToEnd(d, key, entry) ==
    Append(SelectSeq(d, LAMBDA e : e.term # key), entry)

\* index_entries is an OrderedDict: a list of entries with distinct terms;
\* assigning to a term that is there keeps its place
SetItem(d, key, entry) ==
    IF \E k \in 1..Len(d) : d[k].term = key
    THEN [k \in 1..Len(d) |-> IF d[k].term = key THEN entry ELSE d[k]]
    ELSE Append(d, entry)

\* main_entry.subentries[subterm] = page_refs, subentries being a dict kept
\* as a list of [term, page_refs]
SetSub(subs, key, refs) ==
    IF \E k \in 1..Len(subs) : subs[k].term = key
    THEN [k \in 1..Len(subs) |->
             IF subs[k].term = key THEN [term |-> key, page_refs |-> refs]
             ELSE subs[k]]
    ELSE Append(subs, [term |-> key, page_refs |-> refs])
AddSub(d, main, key, refs) ==
    [k \in 1..Len(d) |->
        IF d[k].term = main
        THEN [d[k] EXCEPT !.subentries = SetSub(@, key, refs)] ELSE d[k]]

\* one iteration of the loop of _extract_index over the line, st holding
\* index_entries and current_main_term
MainEntry(st, term, pages) ==
    IF term # <<>>
    THEN [index_entries |-> SetItem(st.index_entries, term,
                                    IndexEntry(term, _parse_page_refs(pages))),
          current_main_term |-> term]
    ELSE st
SubEntry(st, g) ==
    IF g.ok /\ Strip(g.term) # <<>>
    THEN [st EXCEPT !.index_entries =
             AddSub(@, st.current_main_term, Strip(g.term),
                    _parse_page_refs(g.pages))]
    ELSE st
IndexLineWith(st, line, m) ==
    IF m.ok THEN MainEntry(st, Strip(m.term), m.pages)
    ELSE IF Truthy(st.current_main_term) /\ StartsWith(line, <<" ">>)
    THEN SubEntry(st, IndexPattern2(line))
    ELSE st
IndexLine(st, line) ==
    IF Strip(line) = <<>> THEN st ELSE IndexLineWith(st, line, IndexPattern1(line))
RECURSIVE IndexPass(_, _)
IndexPass(ls, st) ==
    IF ls = <<>> THEN st
    ELSE IndexPass(Tail(ls), IndexLine(st, RStrip(ls[1])))
_extract_index(t) ==
    IndexPass(SplitOn(t, NL),
              [index_entries |-> <<>>, current_main_term |-> NoneV]).index_entries


\* ------------------------------------------------------------------------
\* TOCExtractor.display_toc
\* ------------------------------------------------------------------------

Spaces(n) == [k \in 1..n |-> " "]

\* TOCEntry.__str__:
\* f"{' ' * (self.level*2)}{self.title} ({'p.' + str(self.page_num) if self.page_num else 'N/A'})"
TOCEntry_str(e) ==
    Spaces(e.level * 2) \o e.title \o <<" ", "(">>
        \o (IF e.page_num # 0 THEN <<"p", ".">> \o IntToStr(e.page_num) ELSE <<"N", "/", "A">>)
        \o <<")">>

\* _format_entry(entry, indent): the lines it appends to output, the entry's
\* own line first and then those of its children, two more spaces in
RECURSIVE _format_entry(_, _)
RECURSIVE FormatAll(_, _)
_format_entry(entry, indent) ==
    <<Spaces(indent) \o TOCEntry_str(entry)>> \o FormatAll(entry.children, indent + 2)
FormatAll(entries, indent) ==
    IF entries = <<>> THEN <<>>
    ELSE _format_entry(entries[1], indent) \o FormatAll(Tail(entries), indent)

\* display_toc(): "\n".join(output)
display_toc(entries) == Join(FormatAll(entries, 0), <<NL>>)
\* ------------------------------------------------------------------------
\* The state machine
\* ------------------------------------------------------------------------

VARIABLES
    components,          \* ComponentExtractor.components
    categories,          \* ComponentExtractor.categories
    pc,                  \* "idle", or "loop" inside extract_components_from_text
    lines,               \* locals of the running extract_components_from_text
    i,
    current_category,
    category_components,
    pending_number,
    text,                \* the argument of the last extract_components_from_text
    last,                \* the last operation that ended on the instance
    returned,            \* what it returned (NoneV when it raised)
    raised,              \* the exception it let escape, or "none"
    calls,               \* extraction calls made on the instance so far
    toc_entries,         \* TOCExtractor.toc_entries
    index_entries,       \* TOCExtractor.index_entries (the values, in order)
    toc_text,            \* the argument of the last extract_toc_from_text
    toc_last,            \* the last operation on the TOCExtractor: "toc",
                         \* "index" or "display" ("init" before any)
    toc_returned,        \* what it returned (NoneV when it raised)
    toc_raised,          \* the exception it let escape, or "none"
    toc_calls,           \* calls made on the TOCExtractor so far
    doc,                 \* the text of the loaded document (NoneV when none)
    th,                  \* the extract_components_from_text calls of two
                         \* threads on one instance: each call's locals
    rp                   \* a _post_process_components pass followed step by
                         \* step: its position and its two rolling strings

compVars == <<components, categories, pc, lines, i, current_category,
              category_components, pending_number, text, last, returned,
              raised, calls>>
\* the variables of a sequential call, which the threads do not use
threadFree == <<pc, lines, i, current_category, category_components,
                pending_number, text, last, returned, raised, calls>>
tocVars == <<toc_entries, index_entries, toc_text, toc_last, toc_returned,
             toc_raised, toc_calls>>

vars == <<compVars, tocVars, doc, th, rp>>

\* --- inputs ---------------------------------------------------------------

MaxLines == 3
MaxN == 23
MaxCalls == 2

\* the lines the component texts are made of
CompPalette ==
    << <<"4", ".">>, <<"7", ")">>, <<"S", "t", "u", "d", "e", "n", "t", " ", "n", "a", "m", "e", " ", "l", "i", "s", "t", "s">>, <<"N", "a", "m", "e", " ", "l", "i", "s", "t", "s">>,
       <<"(", "s", "e", "c", "t", "i", "o", "n", " ", "w", "i", "s", "e", ")">>, <<"i", "s", " ", "t", "e", "a", "c", "h", "i", "n", "g", " ", "l", "o", "a", "d">>, <<"C", "O", "U", "R", "S", "E", " ", "I", "N", "F", "O", ":">>,
       <<"A", "S", "S", "E", "S", "S", "M", "E", "N", "T">>, <<"1", ".", " ", "V", "i", "s", "i", "o", "n", " ", "o", "f", " ", "t", "h", "e", " ", "d", "e", "p", "a", "r", "t", "m", "e", "n", "t">>, <<>> >>

\* one line for each rule of the cascade and of the fallbacks
CompSingleLines ==
    { <<"5", ".", " ", "M", "i", "d", " ", "T", "e", "r", "m", " ", "E", "x", "a", "m", " ", "(", "M", "T", "E", ")">>, <<"a", ")", " ", "F", "a", "c", "u", "l", "t", "y", " ", "p", "r", "o", "f", "i", "l", "e", "s">>,
      <<"i", "v", ".", " ", "C", "o", "u", "r", "s", "e", " ", "h", "a", "n", "d", "o", "u", "t">>, <<" ", " ", "4", ".", " ", "S", "t", "u", "d", "e", "n", "t", " ", "l", "i", "s", "t", "s">>,
      <<"6", ":", " ", "A", "s", "s", "i", "g", "n", "m", "e", "n", "t", " ", "q", "u", "e", "s", "t", "i", "o", "n", "s">>, <<"7", " ", "-", " ", "M", "i", "d", " ", " ", "t", "e", "r", "m", " ", "p", "a", "p", "e", "r", "s">>,
      <<"8", ".", "A", "s", "s", "i", "g", "n", "m", "e", "n", "t">>, <<"1", "2", " ", "i", "t", "e", "m", "s">>, <<"9", "x">>, <<"I", ".", " ", "G", "E", "N", "E", "R", "A", "L", " ", "I", "N", "F", "O", "R", "M", "A", "T", "I", "O", "N">>,
      <<"g", "a", "r", "b", "a", "g", "e", " ", "l", "i", "n", "e">>, <<"3", ".", " ", "(", "M", "T", "E", ")", " ", "p", "a", "p", "e", "r", "s", " ", ",", " ", "-", " ", "a", "n", "d", " ", "m", "o", "r", "e">>,
      <<"7", ".", " ", "p", "a", "p", "e", "r", "s", " ", ",", " ", "-">> }

RECURSIVE SeqsUpTo(_, _)
SeqsUpTo(S, n) ==
    IF n = 0 THEN {<<>>}
    ELSE LET shorter == SeqsUpTo(S, n - 1)
         IN  shorter \cup {Append(s, x) : s \in shorter, x \in S}

JoinLines(ls) == Join(ls, <<NL>>)

PaletteTexts ==
    {JoinLines([k \in 1..Len(s) |-> CompPalette[s[k]]]) :
        s \in SeqsUpTo(1..Len(CompPalette), MaxLines) \ {<<>>}}

\* "1. ...", "2. ...", ..., "n. ..."
NumberedLine(k) == IntToStr(k) \o <<".", " ", "C", "o", "u", "r", "s", "e", " ", "f", "i", "l", "e", " ", "i", "t", "e", "m">>
NumberedText(n) == JoinLines([k \in 1..n |-> NumberedLine(k)])

\* a category of three components closed by the next header
ClosingText ==
    JoinLines(<< <<"C", "O", "U", "R", "S", "E", " ", "I", "N", "F", "O", ":">>, <<"1", ".", " ", "V", "i", "s", "i", "o", "n", " ", "o", "f", " ", "t", "h", "e", " ", "d", "e", "p", "a", "r", "t", "m", "e", "n", "t">>,
                 <<"2", ".", " ", "F", "a", "c", "u", "l", "t", "y", " ", "p", "r", "o", "f", "i", "l", "e", "s", " ", "a", "n", "d", " ", "t", "i", "m", "e", "t", "a", "b", "l", "e", "s">>, <<"4", ".">>,
                 <<"S", "t", "u", "d", "e", "n", "t", " ", "n", "a", "m", "e", " ", "l", "i", "s", "t", "s">>, <<"A", "S", "S", "E", "S", "S", "M", "E", "N", "T">>,
                 <<"5", ".", " ", "M", "i", "d", " ", "T", "e", "r", "m", " ", "E", "x", "a", "m", " ", "(", "M", "T", "E", ")">> >>)

\* a number on a line of its own, blank lines, and the line merged with it
MergeTexts ==
    { JoinLines(<< <<"4", ".">>, <<>>, <<>>, <<" ", " ", "S", "t", "u", "d", "e", "n", "t", " ", "n", "a", "m", "e", " ", "l", "i", "s", "t", "s", " ", " ">> >>),
      JoinLines(<< <<"7", ")">>, <<"M", "i", "d", " ", " ", "t", "e", "r", "m", " ", ",", " ", "-", " ", "p", "a", "p", "e", "r", "s">> >>),
      JoinLines(<< <<"1", "2", ".">>, <<"L", "a", "b", " ", "m", "a", "n", "u", "a", "l", " ", "a", "n", "d", " ", "r", "e", "c", "o", "r", "d">> >>),
      JoinLines(<< <<"3", ".">>, <<"C", "o", "u", "r", "s", "e", " ", "h", "a", "n", "d", "o", "u", "t", " ", "a", "n", "d", " ", "c", "l", "o", "s", "u", "r", "e">> >>) }

\* a number on a line of its own and then a line in one of the numbered
\* forms of the cascade, or a category header
PendingThenNumbered ==
    {JoinLines(<< <<"7", ".">>, l >>) :
        l \in { <<"9", ")", " ", "L", "a", "b", " ", "r", "e", "c", "o", "r", "d">>, <<" ", " ", "4", ".", " ", "S", "t", "u", "d", "e", "n", "t", " ", "l", "i", "s", "t", "s">>,
                <<"6", ":", " ", "A", "s", "s", "i", "g", "n", "m", "e", "n", "t", " ", "q", "u", "e", "s", "t", "i", "o", "n", "s">>, <<"7", " ", "-", " ", "M", "i", "d", " ", " ", "t", "e", "r", "m", " ", "p", "a", "p", "e", "r", "s">>,
                <<"8", ".", "A", "s", "s", "i", "g", "n", "m", "e", "n", "t">>, <<"C", "O", "U", "R", "S", "E", " ", "I", "N", "F", "O", ":">> }}

CompTexts ==
    PaletteTexts \cup CompSingleLines \cup {ClosingText} \cup MergeTexts
        \cup PendingThenNumbered
        \cup {NumberedText(n) : n \in 1..MaxN}

\* the texts an instance may have been used on before the call observed
HistoryTexts == {ClosingText, NumberedText(2), <<"4", ".">> \o <<NL>> \o <<"N", "a", "m", "e", " ", "l", "i", "s", "t", "s">>}

\* the lines the TOC and index texts are made of
TocPalette ==
    << <<"1", ".", " ", "A", "l", "p", "h", "a", " ", "3">>, <<" ", " ", "1", ".", "1", " ", "B", "e", "t", "a", " ", "4">>, <<"1", ".", "2", ".", " ", "G", "a", "m", "m", "a", ".", ".", "1", "5">>, <<"I", "n", "t", "r", "o", ".", ".", ".", ".", "1", "0">>,
       <<" ", " ", " ", " ", "D", "e", "e", "p", ".", ".", "7">>, <<"I", "I", ".", " ", "T", "w", "o", " ", "9">>, <<"g", "a", "r", "b", "a", "g", "e">>, <<>>, <<"1", ".", " ", "A">>,
       <<"A", "l", "g", "o", "r", "i", "t", "h", "m", "s", ",", " ", "1", "0", ",", " ", "1", "5", "-", "1", "7", ",", " ", "2", "3">>, <<" ", " ", "r", "e", "c", "u", "r", "s", "i", "v", "e", ",", " ", "1", "5", ",", " ", "1", "7">>, <<"F", "o", "o", ",", " ", "7", "-", "5">> >>

\* one line for each TOC pattern and for the last resort
TocSingleLines ==
    { <<"A", ".", "1", " ", "A", "p", "p", " ", "1", "2">>, <<"C", "h", "a", "p", "t", "e", "r", " ", "2", " ", "M", "e", "t", "h", "o", "d", "s", " ", "2", "0">>, <<" ", " ", " ", " ", " ", "5">>, <<"1", ".", " ", " ", "1", "0">>,
      <<"x", " ", "5">>, <<"1", ".", ".", ".", "5">>, <<"i", "i", ".", " ", " ", "4">>, <<" ", " ", "3", ".", "1", ".", " ", " ", "R", "e", "s", "u", "l", "t", "s", " ", " ", ".", ".", ".", " ", " ", "8">>,
      <<"S", "e", "c", "t", "i", "o", "n", " ", "4", ".", " ", "9">>, <<"B", ".", "2", ".", "1", " ", " ", "1", "1">> }

MaxTocLines == 2
TocPaletteTexts ==
    {JoinLines([k \in 1..Len(s) |-> TocPalette[s[k]]]) :
        s \in SeqsUpTo(1..Len(TocPalette), MaxTocLines) \ {<<>>}}

\* the hierarchy example, without and with page numbers
OutlineText == JoinLines(<< <<"1", ".", " ", "A">>, <<" ", " ", "1", ".", "1", " ", "B">>, <<" ", " ", "1", ".", "2", " ", "C">>, <<"2", ".", " ", "D">> >>)
PagedOutlineText ==
    JoinLines(<< <<"1", ".", " ", "A", "l", "p", "h", "a", " ", "3">>, <<" ", " ", "1", ".", "1", " ", "B", "e", "t", "a", " ", "4">>, <<" ", " ", "1", ".", "2", " ", "G", "a", "m", "m", "a", " ", "5">>,
                 <<"2", ".", " ", "D", "e", "l", "t", "a", " ", "6">> >>)

\* entries of three levels out of order, one of them twice
DeepOutlineText ==
    JoinLines(<< <<"1", ".", "2", ".", " ", "G", "a", "m", "m", "a", ".", ".", "1", "5">>, <<"1", ".", " ", "A", "l", "p", "h", "a", " ", "3">>, <<"I", "n", "t", "r", "o", ".", ".", ".", ".", "1", "0">>,
                 <<"1", ".", "2", ".", " ", "G", "a", "m", "m", "a", ".", ".", "1", "5">> >>)

\* index main-entry lines "term, page-list": a token is <<n>> or <<a, b>>
MaxToks == 3
Tokens == {<<10>>, <<23>>, <<15, 17>>, <<7, 7>>}
TokenStr(tok) ==
    IF Len(tok) = 1 THEN IntToStr(tok[1])
    ELSE IntToStr(tok[1]) \o <<"-">> \o IntToStr(tok[2])
PageListStr(toks) == Join([k \in 1..Len(toks) |-> TokenStr(toks[k])], <<",", " ">>)
IndexTerms == {<<"A", "l", "g", "o", "r", "i", "t", "h", "m", "s">>, <<"S", "o", "r", "t", "i", "n", "g", ",", " ", "s", "t", "a", "b", "l", "e">>}
TokenSeqs == SeqsUpTo(Tokens, MaxToks) \ {<<>>}
IndexLineOf(term, toks) == term \o <<",", " ">> \o PageListStr(toks)
IndexLines == {IndexLineOf(term, toks) : term \in IndexTerms, toks \in TokenSeqs}

\* a term on two main-entry lines, and a term that comes back after an
\* indented line
RepeatedTermTexts ==
    {JoinLines(<<IndexLineOf(t1, <<a>>), IndexLineOf(t2, <<b>>)>>) :
        t1 \in IndexTerms, t2 \in IndexTerms, a \in Tokens, b \in Tokens}
    \cup {JoinLines(<< <<"A", "l", "g", "o", "r", "i", "t", "h", "m", "s", ",", " ", "1", "0">>, <<" ", " ", "r", "e", "c", "u", "r", "s", "i", "v", "e", ",", " ", "1", "5", ",", " ", "1", "7">>,
                       <<"A", "l", "g", "o", "r", "i", "t", "h", "m", "s", ",", " ", "2", "3">> >>)}

TocTexts ==
    TocPaletteTexts \cup TocSingleLines \cup IndexLines
        \cup {OutlineText, PagedOutlineText, DeepOutlineText}
        \cup RepeatedTermTexts

\* the texts a TOCExtractor may have been used on before the call observed
TocHistoryTexts == {<<"A", "l", "g", "o", "r", "i", "t", "h", "m", "s", ",", " ", "1", "0", ",", " ", "1", "5", "-", "1", "7", ",", " ", "2", "3">>, <<"I", "n", "t", "r", "o", ".", ".", ".", ".", "1", "0">>, <<"g", "a", "r", "b", "a", "g", "e">>}

\* the forests display_toc is given: what the hierarchy pass builds from up
\* to MaxShown entries of level 0..MaxLevel, with and without a page number
MaxLevel == 2
MaxShown == 2
ShownEntries ==
    {TOCEntry(level, title, page_num, title) :
        level \in 0..MaxLevel, title \in {<<"A">>, <<"B", " ", "c">>}, page_num \in {0, 3}}
ShownForests ==
    {Hierarchy(SortByLevel(s)) : s \in SeqsUpTo(ShownEntries, MaxShown)}

\* the texts of the two concurrent calls
ConcTexts ==
    { <<"1", ".", " ", "V", "i", "s", "i", "o", "n", " ", "o", "f", " ", "t", "h", "e", " ", "d", "e", "p", "a", "r", "t", "m", "e", "n", "t">>,
      JoinLines(<< <<"4", ".">>, <<"S", "t", "u", "d", "e", "n", "t", " ", "n", "a", "m", "e", " ", "l", "i", "s", "t", "s">> >>),
      JoinLines(<< <<"C", "O", "U", "R", "S", "E", " ", "I", "N", "F", "O", ":">>, <<"7", ".", " ", "L", "a", "b", " ", "m", "a", "n", "u", "a", "l", " ", "a", "n", "d", " ", "r", "e", "c", "o", "r", "d">>,
                   <<"i", "s", " ", "t", "e", "a", "c", "h", "i", "n", "g", " ", "l", "o", "a", "d">> >>) }

\* the texts the repair pass is followed on: up to MaxPass component lines
\* numbered from 1 or from 6, with titles of each kind the second pass
\* tells apart
MaxPass == 3
PassTitles ==
    { <<"V", "i", "s", "i", "o", "n", " ", "o", "f", " ", "t", "h", "e", " ", "d", "e", "p", "a", "r", "t", "m", "e", "n", "t">>, <<"F", "a", "c", "u", "l", "t", "y", " ", "p", "r", "o", "f", "i", "l", "e", "s", " ", "a", "n", "d", " ", "t", "i", "m", "e", "t", "a", "b", "l", "e", "s">>,
      <<"(", "s", "e", "c", "t", "i", "o", "n", " ", "w", "i", "s", "e", " ", "l", "i", "s", "t", ")">>, <<"i", "s", " ", "t", "e", "a", "c", "h", "i", "n", "g", " ", "l", "o", "a", "d">>, <<"a", "r", "e", " ", "h", "e", "r", "e">>, <<"4", ".">>,
      <<"S", "e", "r", "i", "a", "l", " ", "n", "o", " ", "a", "n", "d", " ", "c", "o", "n", "t", "e", "n", "t", "s">> }
PassNumbered(titles, offset) ==
    [k \in 1..Len(titles) |-> IntToStr(k + offset) \o <<".", " ">> \o titles[k]]
PassTexts ==
    {JoinLines(PassNumbered(titles, offset)) :
        titles \in SeqsUpTo(PassTitles, MaxPass) \ {<<>>}, offset \in {0, 5}}

\* the texts whose components are displayed: up to MaxListLines lines of the
\* palette, one line for each rule, a closed category, and components outside
\* every category
MaxListLines == 2
ListTexts ==
    {JoinLines([k \in 1..Len(s) |-> CompPalette[s[k]]]) :
        s \in SeqsUpTo(1..Len(CompPalette), MaxListLines) \ {<<>>}}
    \cup CompSingleLines \cup {ClosingText, NumberedText(12)}
    \cup { JoinLines(<< <<"1", ".", " ", "V", "i", "s", "i", "o", "n", " ", "o", "f", " ", "t", "h", "e", " ", "d", "e", "p", "a", "r", "t", "m", "e", "n", "t">>, <<"C", "O", "U", "R", "S", "E", " ", "I", "N", "F", "O", ":">>,
                        <<"2", ".", " ", "F", "a", "c", "u", "l", "t", "y", " ", "p", "r", "o", "f", "i", "l", "e", "s", " ", "a", "n", "d", " ", "t", "i", "m", "e", "t", "a", "b", "l", "e", "s">> >>),
           JoinLines(<< <<"a", ")", " ", "F", "a", "c", "u", "l", "t", "y", " ", "p", "r", "o", "f", "i", "l", "e", "s">>,
                        <<"1", ".", " ", "V", "i", "s", "i", "o", "n", " ", "o", "f", " ", "t", "h", "e", " ", "d", "e", "p", "a", "r", "t", "m", "e", "n", "t">> >>) }

\* the texts of the documents
DocPalette ==
    << <<"g", "a", "r", "b", "a", "g", "e">>, <<>>, <<"C", "O", "U", "R", "S", "E", " ", "I", "N", "F", "O", ":">>, <<"a", "b", "c">>, <<"A", "l", "g", "o", "r", "i", "t", "h", "m", "s", ",", " ", "1", "0">>,
       <<"1", ".", " ", "A", "l", "p", "h", "a", " ", "3">>, <<"4", ".">> >>
MaxDocLines == 2
DocTexts ==
    {JoinLines([k \in 1..Len(s) |-> DocPalette[s[k]]]) :
        s \in SeqsUpTo(1..Len(DocPalette), MaxDocLines) \ {<<>>}}
DocHistoryTexts == {<<"1", ".", " ", "A", "l", "p", "h", "a", " ", "3">> \o <<NL>> \o <<"A", "l", "g", "o", "r", "i", "t", "h", "m", "s", ",", " ", "1", "0">>}

\* --- ComponentExtractor ---------------------------------------------------

Frame ==
    [components |-> components, categories |-> categories, i |-> i,
     current_category |-> current_category,
     category_components |-> category_components,
     pending_number |-> pending_number, exc |-> "none"]

\* a call that starts without emptying self.categories
C4_BeginKeepsCategories(t) ==
    /\ pc = "idle"
    /\ text' = t
    /\ components' = <<>>
    /\ categories' = categories
    /\ lines' = SplitOn(t, NL)
    /\ current_category' = NoneV
    /\ category_components' = <<>>
    /\ pending_number' = NoneV
    /\ i' = 0
    /\ pc' = "loop"
    /\ calls' = calls + 1
    /\ last' = "begin"
    /\ returned' = NoneV
    /\ raised' = "none"

\* a call that starts inside a category
C20_BeginInCategory(t) ==
    /\ pc = "idle"
    /\ text' = t
    /\ components' = <<>>
    /\ categories' = <<>>
    /\ lines' = SplitOn(t, NL)
    /\ current_category' = <<"G", "E", "N", "E", "R", "A", "L">>
    /\ category_components' = <<>>
    /\ pending_number' = NoneV
    /\ i' = 0
    /\ pc' = "loop"
    /\ calls' = calls + 1
    /\ last' = "begin"
    /\ returned' = NoneV
    /\ raised' = "none"

\* the call of extract_components_from_text(t) up to the loop
ExtractBegin(t) ==
    /\ pc = "idle"
    /\ text' = t
    /\ components' = <<>>
    /\ categories' = <<>>
    /\ lines' = SplitOn(t, NL)
    /\ current_category' = NoneV
    /\ category_components' = <<>>
    /\ pending_number' = NoneV
    /\ i' = 0
    /\ pc' = "loop"
    /\ calls' = calls + 1
    /\ last' = "begin"
    /\ returned' = NoneV
    /\ raised' = "none"

\* the frame f becomes the state; an exception ends the call
StoreFrame(f) ==
    /\ components' = f.components
    /\ categories' = f.categories
    /\ i' = f.i
    /\ current_category' = f.current_category
    /\ category_components' = f.category_components
    /\ pending_number' = f.pending_number
    /\ raised' = f.exc
    /\ pc' = IF f.exc = "none" THEN "loop" ELSE "idle"
    /\ last' = IF f.exc = "none" THEN last ELSE "raised"

\* one iteration of `while i < len(lines)`
ExtractLine ==
    /\ pc = "loop"
    /\ i < Len(lines)
    /\ StoreFrame(LineStep(Frame, lines[i + 1]))
    /\ UNCHANGED <<lines, text, returned, calls>>

\* the loop has ended: final category, repair pass, return self.components
ExtractFinish ==
    /\ pc = "loop"
    /\ i >= Len(lines)
    /\ components' = _post_process_components(components)
    /\ categories' = CloseCategory(Frame)
    /\ returned' = components'
    /\ pc' = "idle"
    /\ last' = "extract"
    /\ lines' = <<>>
    /\ i' = 0
    /\ current_category' = NoneV
    /\ category_components' = <<>>
    /\ pending_number' = NoneV
    /\ UNCHANGED <<text, raised, calls>>

Organize ==
    /\ pc = "idle"
    /\ categories' = organize_by_categories(components, categories)
    /\ returned' = categories'
    /\ last' = "organize"
    /\ raised' = "none"
    /\ UNCHANGED <<components, pc, lines, i, current_category,
                   category_components, pending_number, text, calls>>

\* display_components(): the rendering of the components as they are
DisplayComponents ==
    /\ pc = "idle"
    /\ last # "display"
    /\ returned' = display_components(components, categories)
    /\ last' = "display"
    /\ raised' = "none"
    /\ UNCHANGED <<components, categories, pc, lines, i, current_category,
                   category_components, pending_number, text, calls>>

InitComp ==
    /\ components = <<>>
    /\ categories = <<>>
    /\ pc = "idle"
    /\ lines = <<>>
    /\ i = 0
    /\ current_category = NoneV
    /\ category_components = <<>>
    /\ pending_number = NoneV
    /\ text = NoneV
    /\ last = "init"
    /\ returned = NoneV
    /\ raised = "none"
    /\ calls = 0

\* the calls the model makes: MaxCalls extractions on an instance, the
\* earlier ones on the history texts
MayExtract == calls < MaxCalls /\ (calls = 0 \/ text \in HistoryTexts)

\* --- two threads on one ComponentExtractor ---------------------------------

\* Each thread makes one extract_components_from_text call.  The locals of
\* the call are the thread's own; self.components and self.categories are
\* the instance's, read anew at every step.  A step is the start of the
\* call, one iteration of the loop, or what follows the loop; another
\* thread can run between two steps.  (A member of a category is the
\* position the component had in self.components when it was appended.)
Threads == {1, 2}
IdleThread ==
    [pc |-> "idle", text |-> NoneV, lines |-> <<>>, i |-> 0,
     current_category |-> NoneV, category_components |-> <<>>,
     pending_number |-> NoneV, returned |-> NoneV, raised |-> "none",
     overlapped |-> FALSE]
InitThreads == th = [p \in Threads |-> IdleThread]

ConcFrame(p) ==
    [components |-> components, categories |-> categories, i |-> th[p].i,
     current_category |-> th[p].current_category,
     category_components |-> th[p].category_components,
     pending_number |-> th[p].pending_number, exc |-> "none"]

\* the other threads are inside a call
Overlaps(p) == \E q \in Threads \ {p} : th[q].pc = "loop"

\* a call that starts without emptying self.components
C15_BeginKeepsComponents(p, t) ==
    /\ th[p].pc = "idle"
    /\ components' = components
    /\ categories' = <<>>
    /\ th' = [q \in Threads |->
                IF q = p
                THEN [IdleThread EXCEPT !.pc = "loop", !.text = t,
                                        !.lines = SplitOn(t, NL),
                                        !.overlapped = Overlaps(p)]
                ELSE [th[q] EXCEPT !.overlapped = @ \/ th[q].pc = "loop"]]

\* thread p enters extract_components_from_text(t): the two lists of the
\* instance are replaced by new empty ones
ConcBegin(p, t) ==
    /\ th[p].pc = "idle"
    /\ components' = <<>>
    /\ categories' = <<>>
    /\ th' = [q \in Threads |->
                IF q = p
                THEN [IdleThread EXCEPT !.pc = "loop", !.text = t,
                                        !.lines = SplitOn(t, NL),
                                        !.overlapped = Overlaps(p)]
                ELSE [th[q] EXCEPT !.overlapped = @ \/ th[q].pc = "loop"]]

\* the frame f of thread p becomes the state
ConcStore(p, f) ==
    /\ components' = f.components
    /\ categories' = f.categories
    /\ th' = [th EXCEPT ![p].i = f.i,
                        ![p].current_category = f.current_category,
                        ![p].category_components = f.category_components,
                        ![p].pending_number = f.pending_number,
                        ![p].raised = f.exc,
                        ![p].pc = IF f.exc = "none" THEN "loop" ELSE "done"]

\* one iteration of the loop of thread p
ConcLine(p) ==
    /\ th[p].pc = "loop"
    /\ th[p].i < Len(th[p].lines)
    /\ ConcStore(p, LineStep(ConcFrame(p), th[p].lines[th[p].i + 1]))

\* the loop of thread p has ended: final category, repair pass on
\* self.components as it is now, return self.components
ConcFinish(p) ==
    /\ th[p].pc = "loop"
    /\ th[p].i >= Len(th[p].lines)
    /\ components' = _post_process_components(components)
    /\ categories' = CloseCategory(ConcFrame(p))
    /\ th' = [th EXCEPT ![p].returned = components', ![p].pc = "done"]

\* --- the repair pass, step by step ------------------------------------------

\* no pass is being followed
IdlePass == [pc |-> "idle", i |-> 0, previous_title |-> <<>>, main_topic |-> <<>>]
InitPass == rp = IdlePass

\* the pass is entered: previous_title = "", main_topic = "" are set before
\* the second loop, whose index is i
EnterPass == [pc |-> "first", i |-> 0, previous_title |-> <<>>, main_topic |-> <<>>]

\* first pass: the `for component in self.components` loop over known_titles
PassFirst ==
    /\ rp.pc = "first"
    /\ components' = FixAll(components)
    /\ rp' = [rp EXCEPT !.pc = "second"]

\* the state of the second loop as a record, and the record as the state
PassState ==
    [comps |-> components, previous_title |-> rp.previous_title,
     main_topic |-> rp.main_topic]
\* an iteration that keeps replacing main_topic
C26_TopicFollows(st) ==
    /\ components' = st.comps
    /\ rp' = [pc |-> "second", i |-> rp.i + 1,
              previous_title |-> st.previous_title,
              main_topic |-> st.previous_title]
StorePass(st) ==
    /\ components' = st.comps
    /\ rp' = [pc |-> "second", i |-> rp.i + 1,
              previous_title |-> st.previous_title,
              main_topic |-> st.main_topic]

\* one iteration of `for i, component in enumerate(self.components)`
PassSecond ==
    /\ rp.pc = "second"
    /\ rp.i < Len(components)
    /\ StorePass(RepairStep(PassState, rp.i))

\* the second loop has ended: the final cleanup loop
PassCleanup ==
    /\ rp.pc = "second"
    /\ rp.i >= Len(components)
    /\ components' = CleanupAll(components)
    /\ rp' = [rp EXCEPT !.pc = "done"]

\* --- TOCExtractor ----------------------------------------------------------

\* the second pass of _extract_toc, on the flat list of the first
SecondPass(flat, seen) ==
    IF flat = <<>> THEN [toc_entries |-> <<>>, exc |-> "none"]
    ELSE _determine_hierarchy(flat, seen)

StoreToc(t, r) ==
    /\ toc_entries' = r.toc_entries
    /\ toc_raised' = r.exc
    /\ toc_returned' = IF r.exc = "none" THEN r.toc_entries ELSE NoneV
    /\ toc_text' = t
    /\ toc_last' = "toc"
    /\ toc_calls' = toc_calls + 1
    /\ UNCHANGED index_entries
TocWith(t, flat) == \E seen \in SortViews(flat) : StoreToc(t, SecondPass(flat, seen))

\* extract_toc_from_text(t): toc_entries is reset and filled again
ExtractToc(t) == TocWith(t, FlatEntries(t))

\* extract_toc_from_text(t, is_index=True): index_entries is reset and
\* filled again
ExtractIndex(t) ==
    /\ index_entries' = _extract_index(t)
    /\ toc_returned' = index_entries'
    /\ toc_raised' = "none"
    /\ toc_text' = t
    /\ toc_last' = "index"
    /\ toc_calls' = toc_calls + 1
    /\ UNCHANGED toc_entries

\* display_toc(): the rendering of toc_entries as they are
DisplayToc ==
    /\ toc_last # "display"
    /\ toc_returned' = display_toc(toc_entries)
    /\ toc_raised' = "none"
    /\ toc_last' = "display"
    /\ UNCHANGED <<toc_entries, index_entries, toc_text, toc_calls>>

InitTOC ==
    /\ toc_entries = <<>>
    /\ index_entries = <<>>
    /\ toc_text = NoneV
    /\ toc_last = "init"
    /\ toc_returned = NoneV
    /\ toc_raised = "none"
    /\ toc_calls = 0

MayCallToc == toc_calls < MaxCalls /\ (toc_calls = 0 \/ toc_text \in TocHistoryTexts)

\* --- the three specifications ----------------------------------------------

Init == InitComp /\ InitTOC /\ doc = NoneV /\ InitThreads /\ InitPass

\* a ComponentExtractor used on its own
Next ==
    \/ (pc = "idle" /\ MayExtract /\ \E t \in CompTexts : ExtractBegin(t))
          /\ UNCHANGED <<tocVars, doc, th, rp>>
    \/ ExtractLine /\ UNCHANGED <<tocVars, doc, th, rp>>
    \/ ExtractFinish /\ UNCHANGED <<tocVars, doc, th, rp>>
    \/ Organize /\ UNCHANGED <<tocVars, doc, th, rp>>

Spec == Init /\ [][Next]_vars

\* a TOCExtractor used on its own, in both modes
NextTOC ==
    \/ (MayCallToc /\ \E t \in TocTexts : ExtractToc(t))
          /\ UNCHANGED <<compVars, doc, th, rp>>
    \/ (MayCallToc /\ \E t \in TocTexts : ExtractIndex(t))
          /\ UNCHANGED <<compVars, doc, th, rp>>

SpecTOC == Init /\ [][NextTOC]_vars

\* PDFInteraction: both extractors are made once and run on the text of the
\* loaded document, in any order; a second document can be loaded
LoadDoc(d) ==
    /\ pc = "idle"
    /\ doc \in DocHistoryTexts
    /\ d \notin DocHistoryTexts
    /\ doc' = d

InitDoc == InitComp /\ InitTOC /\ doc \in DocTexts /\ InitThreads /\ InitPass

NextDoc ==
    \/ (toc_text # doc /\ ExtractToc(doc)) /\ UNCHANGED <<compVars, doc, th, rp>>
    \/ (toc_text # doc /\ ExtractIndex(doc)) /\ UNCHANGED <<compVars, doc, th, rp>>
    \/ (toc_text = doc /\ toc_last = "index" /\ toc_calls < MaxCalls
           /\ ExtractToc(doc)) /\ UNCHANGED <<compVars, doc, th, rp>>
    \/ (toc_text = doc /\ toc_last = "toc" /\ toc_calls < MaxCalls
           /\ ExtractIndex(doc)) /\ UNCHANGED <<compVars, doc, th, rp>>
    \/ (text # doc /\ ExtractBegin(doc)) /\ UNCHANGED <<tocVars, doc, th, rp>>
    \/ ExtractLine /\ UNCHANGED <<tocVars, doc, th, rp>>
    \/ ExtractFinish /\ UNCHANGED <<tocVars, doc, th, rp>>
    \/ (last = "extract" /\ Organize) /\ UNCHANGED <<tocVars, doc, th, rp>>
    \/ (\E d \in DocTexts : LoadDoc(d)) /\ UNCHANGED <<compVars, tocVars, th, rp>>

SpecDoc == InitDoc /\ [][NextDoc]_vars

\* a TOCExtractor that holds a forest and renders it
InitShow ==
    /\ InitComp
    /\ doc = NoneV
    /\ InitThreads
    /\ InitPass
    /\ toc_entries \in ShownForests
    /\ index_entries = <<>>
    /\ toc_text = NoneV
    /\ toc_last = "init"
    /\ toc_returned = NoneV
    /\ toc_raised = "none"
    /\ toc_calls = 0

NextShow == DisplayToc /\ UNCHANGED <<compVars, doc, th, rp>>

SpecShow == InitShow /\ [][NextShow]_vars

\* a ComponentExtractor in a call whose loop has gone through the text and
\* whose final category is closed, and the repair pass of the call
LoopDone(t, f) ==
    /\ text = t
    /\ lines = SplitOn(t, NL)
    /\ i = f.i
    /\ components = f.components
    /\ categories = CloseCategory(f)
    /\ current_category = f.current_category
    /\ category_components = f.category_components
    /\ pending_number = f.pending_number
InitRepair ==
    /\ InitTOC
    /\ doc = NoneV
    /\ InitThreads
    /\ \E t \in PassTexts : LoopDone(t, RunLoop(StartFrame, SplitOn(t, NL)))
    /\ pc = "loop"
    /\ last = "begin"
    /\ returned = NoneV
    /\ raised = "none"
    /\ calls = 1
    /\ rp = EnterPass

passFree == <<categories, threadFree, tocVars, doc, th>>

NextRepair ==
    \/ PassFirst /\ UNCHANGED passFree
    \/ PassSecond /\ UNCHANGED passFree
    \/ PassCleanup /\ UNCHANGED passFree

SpecRepair == InitRepair /\ [][NextRepair]_vars

\* a ComponentExtractor after one call, organized or not, and displayed
CallDone(t, f) ==
    /\ text = t
    /\ components = f.components
    /\ categories = f.categories
    /\ returned = f.components
    /\ raised = f.exc
InitList ==
    /\ InitTOC
    /\ doc = NoneV
    /\ InitThreads
    /\ InitPass
    /\ \E t \in ListTexts : CallDone(t, FreshRun(t))
    /\ pc = "idle"
    /\ lines = <<>>
    /\ i = 0
    /\ current_category = NoneV
    /\ category_components = <<>>
    /\ pending_number = NoneV
    /\ last = "extract"
    /\ calls = 1

NextList ==
    \/ Organize /\ UNCHANGED <<tocVars, doc, th, rp>>
    \/ DisplayComponents /\ UNCHANGED <<tocVars, doc, th, rp>>

SpecList == InitList /\ [][NextList]_vars

\* one ComponentExtractor shared by two threads, each making one call
NextConc ==
    \/ (\E p \in Threads : \E t \in ConcTexts : ConcBegin(p, t))
          /\ UNCHANGED <<threadFree, tocVars, doc, rp>>
    \/ (\E p \in Threads : ConcLine(p))
          /\ UNCHANGED <<threadFree, tocVars, doc, rp>>
    \/ (\E p \in Threads : ConcFinish(p))
          /\ UNCHANGED <<threadFree, tocVars, doc, rp>>

SpecConc == Init /\ [][NextConc]_vars
\* ------------------------------------------------------------------------
\* Properties
\* ------------------------------------------------------------------------

\* C1: extract_toc_from_text(text) in TOC mode never raises, whatever the
\* text, also when lines classify as TOC entries and the hierarchy pass
\* runs; the call returns the list of entries.
C1_TocNeverRaises ==
    toc_last = "toc" => (toc_raised = "none" /\ toc_returned = toc_entries)

\* C2: extract_components_from_text(text) never raises: the loop over the
\* lines and the repair pass complete for every text, and the call returns
\* the component list.
C2_ComponentsNeverRaise ==
    /\ raised = "none"
    /\ last # "raised"
    /\ (last = "extract" => returned = components)
C2_Witness ==
    /\ last = "extract" /\ text = ClosingText
    /\ Len(components) = 4 /\ Len(categories) = 2

\* C3: on a text in which no line is recognized, each of the three
\* extraction calls returns an empty list without raising, and the list the
\* call stores is empty afterwards.
C3_LineUnrecognized(raw, line) ==
    /\ TocCandidate(raw) => _parse_toc_line(line) = <<>>
    /\ Strip(raw) # <<>> =>
          /\ ~(IndexPattern1(line).ok /\ Strip(IndexPattern1(line).term) # <<>>)
          /\ \/ _match_category(line) # NoneV
             \/ /\ StandaloneNumber(line) = NoneV
                /\ _parse_component_line(line).kind = "none"
C3_Unrecognized(ls) == \A k \in 1..Len(ls) : C3_LineUnrecognized(ls[k], RStrip(ls[k]))
C3_GarbageGivesEmptyLists ==
    (doc # NoneV /\ C3_Unrecognized(SplitOn(doc, NL))) =>
        /\ (toc_text = doc /\ toc_last = "toc") =>
              (toc_raised = "none" /\ toc_returned = <<>> /\ toc_entries = <<>>)
        /\ (toc_text = doc /\ toc_last = "index") =>
              (toc_raised = "none" /\ toc_returned = <<>> /\ index_entries = <<>>)
        /\ (text = doc /\ last = "extract") =>
              (raised = "none" /\ returned = <<>> /\ components = <<>>
                  /\ categories = <<>>)
        /\ (text = doc => last # "raised")
C3_Witness ==
    /\ doc = JoinLines(<< <<"C", "O", "U", "R", "S", "E", " ", "I", "N", "F", "O", ":">>, <<"g", "a", "r", "b", "a", "g", "e">> >>)
    /\ toc_text = doc /\ toc_last = "index" /\ toc_calls >= 2
    /\ toc_entries = <<>> /\ index_entries = <<>>
    /\ text = doc /\ last = "extract" /\ components = <<>>

\* C4: whatever was extracted and organized on the instance before,
\* extract_components_from_text(t) leaves the components and categories a
\* new instance would have, and organize_by_categories after it yields the
\* categories it would yield on a new instance.
C4_SameAsFresh(f) ==
    /\ components = f.components
    /\ last = "extract" => (categories = f.categories /\ returned = components)
    /\ last = "organize" =>
          /\ categories = organize_by_categories(f.components, f.categories)
          /\ returned = categories
C4_HistoryIndependent ==
    (last \in {"extract", "organize"} /\ text # NoneV) =>
        C4_SameAsFresh(FreshRun(text))
C4_Witness ==
    /\ calls >= 2 /\ last = "organize" /\ text \notin HistoryTexts
    /\ Len(components) >= 2 /\ categories # <<>>

\* C5: every call of extract_toc_from_text resets the whole result state:
\* after an index call toc_entries holds nothing of an earlier TOC call,
\* and after a TOC call index_entries holds nothing of an earlier index
\* call.
C5_CallResetsBothLists ==
    /\ toc_last = "index" => toc_entries = <<>>
    /\ toc_last = "toc" => index_entries = <<>>

\* C6: for the four lines "1. A", "  1.1 B", "  1.2 C", "2. D" the TOC call
\* returns the roots A and D in that order, A with the children B and C in
\* that order, D without children, and the levels are A = D < B = C.
C6_Titles(es) == [k \in 1..Len(es) |-> es[k].title]
C6_OutlineHierarchy ==
    (toc_last = "toc" /\ toc_text = OutlineText) =>
        /\ toc_raised = "none"
        /\ C6_Titles(toc_returned) = << <<"A">>, <<"D">> >>
        /\ C6_Titles(toc_returned[1].children) = << <<"B">>, <<"C">> >>
        /\ toc_returned[2].children = <<>>
        /\ toc_returned[1].level = toc_returned[2].level
        /\ toc_returned[1].children[1].level = toc_returned[1].children[2].level
        /\ toc_returned[1].level < toc_returned[1].children[1].level

\* C7: an index main-entry line "term, page-list" whose tokens are integers
\* or ranges a-b with a <= b gives an entry whose page_refs are the tokens in
\* order, each range replaced by a, a+1, ..., b; nothing is sorted or
\* de-duplicated.  (The entry is looked at when no later line of the text
\* has the same term.)
RECURSIVE C7_Expand(_)
C7_Expand(toks) ==
    IF toks = <<>> THEN <<>>
    ELSE (IF Len(toks[1]) = 1 THEN <<PageInt(toks[1][1])>>
          ELSE [k \in 1..(toks[1][2] - toks[1][1] + 1) |->
                   PageInt(toks[1][1] + k - 1)])
         \o C7_Expand(Tail(toks))
C7_LastOfTerm(ls, k, term) ==
    \A j \in (k + 1)..Len(ls) :
        ~(IndexPattern1(RStrip(ls[j])).ok
            /\ Strip(IndexPattern1(RStrip(ls[j])).term) = term)
C7_EntryHas(term, refs) ==
    \E e \in 1..Len(index_entries) :
        index_entries[e].term = term /\ index_entries[e].page_refs = refs
C7_LinesExpand(ls) ==
    \A k \in 1..Len(ls) :
        ls[k] \in IndexLines =>
            \A term \in IndexTerms : \A toks \in TokenSeqs :
                (/\ ls[k] = IndexLineOf(term, toks)
                 /\ \A n \in 1..Len(toks) :
                       Len(toks[n]) = 2 => toks[n][1] <= toks[n][2]
                 /\ C7_LastOfTerm(ls, k, term))
                => C7_EntryHas(term, C7_Expand(toks))
C7_PageRefsExpandInOrder ==
    toc_last = "index" => C7_LinesExpand(SplitOn(toc_text, NL))
C7_Witness ==
    /\ toc_last = "index"
    /\ toc_text = <<"A", "l", "g", "o", "r", "i", "t", "h", "m", "s", ",", " ", "1", "0", ",", " ", "1", "5", "-", "1", "7", ",", " ", "2", "3">>
    /\ Len(index_entries) = 1
    /\ index_entries[1].page_refs =
           <<PageInt(10), PageInt(15), PageInt(16), PageInt(17), PageInt(23)>>

\* C8 as stated: a line with only a number N and "." or ")", then blank
\* lines or none, then a line L that is not blank, not a category header and
\* not a numbered start, give one component, which in the result has the
\* number N and the trimmed L as its title, for every N and L.
C8_IsMerge(ls) ==
    /\ Len(ls) >= 2
    /\ StandaloneNumber(RStrip(ls[1])) # NoneV
    /\ \A k \in 2..(Len(ls) - 1) : Strip(ls[k]) = <<>>
    /\ Strip(ls[Len(ls)]) # <<>>
    /\ _match_category(RStrip(ls[Len(ls)])) = NoneV
    /\ ~IsNumberedStart(RStrip(ls[Len(ls)]))
C8_TitleIs(ls, title) ==
    /\ Len(components) = 1
    /\ components[1].number = StandaloneNumber(RStrip(ls[1]))
    /\ components[1].title = title
C8_MergeKeepsTitle(ls) == C8_IsMerge(ls) => C8_TitleIs(ls, Strip(ls[Len(ls)]))
C8_Predefined(n, l) ==
    /\ n \in KnownNumbers
    /\ \/ l[1] = "("
       \/ Len(l) < 15
       \/ \E k \in 0..(Len(l) - 8) : ToLower(SubSeq(l, k + 1, k + 8)) = <<"t", "e", "a", "c", "h", "i", "n", "g">>
C8_Plain(l) ==
    /\ \A k \in 1..Len(l) : l[k] # "\t"
    /\ \A k \in 1..(Len(l) - 1) :
          ~(l[k] = " " /\ (l[k + 1] = " " \/ (k > 1 /\ l[k - 1] \in Punct
                                                /\ l[k + 1] \in Punct)))
C8_Expected(n, l) ==
    IF C8_Predefined(n, l) THEN known_titles(n)
    ELSE IF C8_Plain(l) THEN l
    ELSE CollapsePunct(CollapseSpaces(l))
C8_MergeRepaired(ls) ==
    C8_IsMerge(ls) =>
        /\ C8_TitleIs(ls, C8_Expected(StandaloneNumber(RStrip(ls[1])),
                                      Strip(ls[Len(ls)])))
        /\ components[1].raw_text =
               StandaloneNumber(RStrip(ls[1])) \o <<".", " ">> \o Strip(ls[Len(ls)])
C9_IsHeader(raw) == Strip(raw) # <<>> /\ _match_category(RStrip(raw)) # NoneV
C9_LastHeader(ls, n) == CHOOSE h \in 1..n : C9_IsHeader(ls[h]) /\ \A j \in (h + 1)..n : ~C9_IsHeader(ls[j])
C9_Closes(name, first, k) ==
    /\ categories' = Append(categories,
                        ComponentCategory(name, [m \in 1..k |-> first + m]))
    /\ category_components' = <<>>
C9_ClosesSince(h, first) ==
    Len(components) > first =>
        C9_Closes(_match_category(RStrip(lines[h])), first, Len(components) - first)
C9_HeaderStep ==
    (/\ pc = "loop" /\ i < Len(lines) /\ C9_IsHeader(lines[i + 1])
     /\ \E h \in 1..i : C9_IsHeader(lines[h]))
    => /\ C9_ClosesSince(C9_LastHeader(lines, i),
               Len(RunLoop(StartFrame,
                           SubSeq(lines, 1, C9_LastHeader(lines, i))).components))
       /\ current_category' = _match_category(RStrip(lines[i + 1]))
C9_ClosedStay ==
    (pc = "loop" /\ pc' = "loop") =>
        /\ Len(categories') >= Len(categories)
        /\ \A j \in 1..Len(categories) : categories'[j] = categories[j]
C9_CategoryClosing == [][C9_HeaderStep /\ C9_ClosedStay]_vars
C9_Witness ==
    /\ pc = "loop" /\ text = ClosingText
    /\ categories = <<ComponentCategory(<<"C", "O", "U", "R", "S", "E", " ", "I", "N", "F", "O">>, <<1, 2, 3>>)>>
    /\ current_category = <<"A", "S", "S", "E", "S", "S", "M", "E", "N", "T">>
    /\ category_components = <<>>
    /\ Len(components) = 3

\* C10: when the extracted components are numbered 1..n in order and no
\* category was closed, organize_by_categories yields ceil(n/10) categories
\* in ascending order, the k-th (from 0) named
\* "Components 10k+1-min(10k+10, n)" and holding the components numbered
\* 10k+1 .. min(10k+10, n) in order.
C10_Bucket(k, n) ==
    [name |-> <<"C", "o", "m", "p", "o", "n", "e", "n", "t", "s", " ">> \o IntToStr(10 * k + 1) \o <<"-">>
                 \o IntToStr(Min(10 * k + 10, n)),
     components |-> [m \in 1..(Min(10 * k + 10, n) - 10 * k) |-> 10 * k + m]]
C10_Buckets(n) == [k \in 1..((n + 9) \div 10) |-> C10_Bucket(k - 1, n)]
C10_Numbered(comps) ==
    /\ comps # <<>>
    /\ \A m \in 1..Len(comps) : comps[m].number = IntToStr(m)
C10_FallbackBuckets ==
    (/\ last = "organize" /\ text # NoneV
     /\ C10_Numbered(components)
     /\ FreshRun(text).categories = <<>>)
    => (categories = C10_Buckets(Len(components)) /\ returned = categories)
C10_Witness ==
    /\ last = "organize" /\ text = NumberedText(23)
    /\ Len(components) = 23
    /\ Len(categories) = 3
    /\ categories[3].name = <<"C", "o", "m", "p", "o", "n", "e", "n", "t", "s", " ", "2", "1", "-", "2", "3">>


\* C11: in an index call, a line indented by at least two whitespace
\* characters that has the shape "subterm, page-list" makes no main entry
\* of its own (no entry has the subterm as its term unless a main-entry line
\* has that term), and, when a main-entry line precedes it, the entry of the
\* most recent one holds the pair subterm -> page list in its subentries.
C11_IsSubLine(raw) ==
    /\ Len(RStrip(raw)) >= 2
    /\ RStrip(raw)[1] \in WS /\ RStrip(raw)[2] \in WS
    /\ IndexPattern2(RStrip(raw)).ok
    /\ Strip(IndexPattern2(RStrip(raw)).term) # <<>>
C11_IsMainLine(raw) ==
    /\ RStrip(raw) # <<>>
    /\ RStrip(raw)[1] \notin WS
    /\ IndexPattern1(RStrip(raw)).ok
    /\ Strip(IndexPattern1(RStrip(raw)).term) # <<>>
C11_MainTerm(raw) == Strip(IndexPattern1(RStrip(raw)).term)
C11_SubTerm(raw) == Strip(IndexPattern2(RStrip(raw)).term)
C11_NoMainEntry(ls, k) ==
    \A e \in 1..Len(index_entries) :
        index_entries[e].term = C11_SubTerm(ls[k])
            => \E j \in 1..Len(ls) :
                   C11_IsMainLine(ls[j]) /\ C11_MainTerm(ls[j]) = C11_SubTerm(ls[k])
C11_UnderMain(ls, j, k) ==
    \E e \in 1..Len(index_entries) :
        /\ index_entries[e].term = C11_MainTerm(ls[j])
        /\ \E s \in 1..Len(index_entries[e].subentries) :
              /\ index_entries[e].subentries[s].term = C11_SubTerm(ls[k])
              /\ index_entries[e].subentries[s].page_refs =
                     _parse_page_refs(IndexPattern2(RStrip(ls[k])).pages)
C11_LinesRecorded(ls) ==
    \A k \in 1..Len(ls) :
        C11_IsSubLine(ls[k]) =>
            /\ C11_NoMainEntry(ls, k)
            /\ \A j \in 1..(k - 1) :
                  (/\ C11_IsMainLine(ls[j])
                   /\ \A m \in (j + 1)..Len(ls) : m # k => ~C11_IsMainLine(ls[m]))
                  => C11_UnderMain(ls, j, k)
C11_SubentryUnderMainTerm ==
    toc_last = "index" => C11_LinesRecorded(SplitOn(toc_text, NL))

\* C12: after an index call the terms of the entries are pairwise distinct
\* (in index_entries and in the list returned), and the entry of a term has
\* the page references of the last main-entry line with that term and no
\* subentries, whatever earlier lines with the term held.
C12_Matches(raw, term) ==
    /\ Strip(raw) # <<>>
    /\ IndexPattern1(RStrip(raw)).ok
    /\ Strip(IndexPattern1(RStrip(raw)).term) = term
C12_LastLine(ls, term) ==
    CHOOSE k \in 1..Len(ls) :
        /\ C12_Matches(ls[k], term)
        /\ \A j \in (k + 1)..Len(ls) : ~C12_Matches(ls[j], term)
C12_DistinctTerms(entries) ==
    \A a \in 1..Len(entries) : \A b \in 1..Len(entries) :
        a # b => entries[a].term # entries[b].term
C12_LastWins(ls) ==
    \A e \in 1..Len(index_entries) :
        /\ \E k \in 1..Len(ls) : C12_Matches(ls[k], index_entries[e].term)
        /\ index_entries[e].page_refs =
               _parse_page_refs(IndexPattern1(
                   RStrip(ls[C12_LastLine(ls, index_entries[e].term)])).pages)
        /\ index_entries[e].subentries = <<>>
C12_TermIsUniqueKey ==
    toc_last = "index" =>
        /\ C12_DistinctTerms(index_entries)
        /\ toc_returned = index_entries
        /\ C12_LastWins(SplitOn(toc_text, NL))
C12_Witness ==
    /\ toc_last = "index"
    /\ toc_text = JoinLines(<< <<"A", "l", "g", "o", "r", "i", "t", "h", "m", "s", ",", " ", "1", "0">>, <<" ", " ", "r", "e", "c", "u", "r", "s", "i", "v", "e", ",", " ", "1", "5", ",", " ", "1", "7">>,
                               <<"A", "l", "g", "o", "r", "i", "t", "h", "m", "s", ",", " ", "2", "3">> >>)
    /\ Len(toc_returned) = 2
    /\ toc_returned[1].term = <<"A", "l", "g", "o", "r", "i", "t", "h", "m", "s">>
    /\ toc_returned[1].page_refs = <<PageInt(23)>>

\* C13: a text of one line "N. title (description)" or "N) title
\* (description)" that ends with the parenthetical gives one component whose
\* description is what the parentheses hold and whose title is the text
\* before the parenthesis.
C13_EndsWithParenthetical(line) ==
    /\ ComponentPattern5(line).ok
    /\ ComponentPattern5(line).description # NoneV
    /\ line[Len(line)] = ")"
    /\ Len(ComponentPattern5(line).number) + 1 < Len(line)
    /\ CountChar(line, "(") = 1 /\ CountChar(line, ")") = 1
C13_DescriptionCaptured ==
    (/\ last = "extract" /\ text # NoneV
     /\ Len(SplitOn(text, NL)) = 1
     /\ C13_EndsWithParenthetical(text))
    => /\ Len(components) = 1
       /\ components[1].description = Strip(ComponentPattern5(text).description)
       /\ components[1].title = Strip(ComponentPattern5(text).title)

\* C14: display_toc writes one line for every entry of the forest, parents
\* before their children, and the line of an entry, at any depth, starts
\* with exactly level*2 spaces (titles are trimmed and here not empty).
RECURSIVE C14_Preorder(_)
C14_Preorder(entries) ==
    IF entries = <<>> THEN <<>>
    ELSE <<entries[1]>> \o C14_Preorder(entries[1].children)
             \o C14_Preorder(Tail(entries))
C14_LinesIndented(out, flat) ==
    /\ Len(out) = Len(flat)
    /\ \A k \in 1..Len(flat) : RunEnd(out[k], 0, {" "}) = flat[k].level * 2
C14_IndentIsTwiceLevel ==
    (toc_last = "display" /\ toc_entries # <<>>) =>
        C14_LinesIndented(SplitOn(toc_returned, NL), C14_Preorder(toc_entries))

\* C17: the hierarchy pass walks the classified entries in source order: a
\* TOC call returns the forest built from the flat list as it stands, a
\* level-0 entry a root, another entry the last child of the most recent
\* earlier entry at the nearest lower level that has one, else a root.
C17_SourceOrderForest ==
    toc_last = "toc" =>
        /\ toc_raised = "none"
        /\ toc_returned = Hierarchy(FlatEntries(toc_text))

\* C16: after extract_components_from_text every component of the list
\* (which is also the list returned) has a title that is not empty and has
\* no leading or trailing whitespace.
C16_Trimmed(comps) ==
    \A k \in 1..Len(comps) :
        comps[k].title # <<>> /\ Strip(comps[k].title) = comps[k].title
C16_TitlesTrimmed ==
    last = "extract" => (C16_Trimmed(components) /\ C16_Trimmed(returned))

\* C18: when the first line holds only a number N and "." or ")" and the
\* second is a category header or starts a numbered component in one of the
\* numbered forms of the cascade ("N." or "N)" and a title, indented or
\* not, "N:" and a title, "N - " and a title, "N.Title"), the pending
\* number is dropped: no component is made from N and the second line (its
\* raw text would be "N. " and the trimmed line).
C18_NumberedForm(line) ==
    \/ ComponentPattern1(line).ok
    \/ ComponentPattern4(line).ok
    \/ ComponentPattern6(line).ok
    \/ ComponentPattern7(line).ok
    \/ ComponentPattern8(line).ok
C18_Discards(ls) ==
    (/\ Len(ls) >= 2
     /\ StandaloneNumber(RStrip(ls[1])) # NoneV
     /\ Strip(ls[2]) # <<>>
     /\ (_match_category(RStrip(ls[2])) # NoneV \/ C18_NumberedForm(RStrip(ls[2]))))
    => \A k \in 1..Len(components) :
           components[k].raw_text #
               StandaloneNumber(RStrip(ls[1])) \o <<".", " ">> \o Strip(ls[2])
C18_PendingDiscarded ==
    (last = "extract" /\ text # NoneV) => C18_Discards(SplitOn(text, NL))

\* C19: a line that holds only a number and "." or ")" only sets the pending
\* number, wherever it stands: no component is made of it alone (with the
\* line as its raw text) and none is made of an earlier pending number and
\* it (with "N. " and the line as its raw text).
C19_NotAComponent(ls) ==
    \A j \in 1..Len(ls) :
        StandaloneNumber(RStrip(ls[j])) # NoneV =>
            \A k \in 1..Len(components) :
                /\ components[k].raw_text # RStrip(ls[j])
                /\ \A m \in 1..(j - 1) :
                      StandaloneNumber(RStrip(ls[m])) # NoneV =>
                          components[k].raw_text #
                              StandaloneNumber(RStrip(ls[m])) \o <<".", " ">>
                                  \o Strip(ls[j])
C19_StandaloneOnlyPends ==
    (last = "extract" /\ text # NoneV) => C19_NotAComponent(SplitOn(text, NL))

\* C20: after extract_components_from_text the components classified before
\* the first category header (the first n of the list, n being what the
\* lines before that header give on their own) are still the first n of the
\* list, and no category of the category list has one of them as a member.
C20_IsHeader(raw) == Strip(raw) # <<>> /\ _match_category(RStrip(raw)) # NoneV
C20_BeforeHeader(ls) ==
    IF \E k \in 1..Len(ls) : C20_IsHeader(ls[k])
    THEN SubSeq(ls, 1, (CHOOSE k \in 1..Len(ls) :
                           /\ C20_IsHeader(ls[k])
                           /\ \A j \in 1..(k - 1) : ~C20_IsHeader(ls[j])) - 1)
    ELSE ls
C20_Outside(early) ==
    /\ Len(components) >= Len(early)
    /\ SubSeq(components, 1, Len(early)) = early
    /\ \A c \in 1..Len(categories) :
          \A m \in 1..Len(categories[c].components) :
              categories[c].components[m] > Len(early)
C20_EarlyComponentsUncategorized ==
    (last = "extract" /\ text # NoneV) =>
        C20_Outside(FreshRun(JoinLines(C20_BeforeHeader(SplitOn(text, NL)))).components)
C20_Witness ==
    /\ last = "extract"
    /\ text = JoinLines(<< <<"1", ".", " ", "V", "i", "s", "i", "o", "n", " ", "o", "f", " ", "t", "h", "e", " ", "d", "e", "p", "a", "r", "t", "m", "e", "n", "t">>, <<"C", "O", "U", "R", "S", "E", " ", "I", "N", "F", "O", ":">>,
                           <<"1", ".", " ", "V", "i", "s", "i", "o", "n", " ", "o", "f", " ", "t", "h", "e", " ", "d", "e", "p", "a", "r", "t", "m", "e", "n", "t">> >>)
    /\ Len(components) = 2
    /\ Len(categories) = 1
    /\ categories[1].components = <<2>>

\* C15: of two extract_components_from_text calls made by two threads on
\* one instance, a call that did not overlap the other (one call ended
\* before the other began) returns what it returns when run alone; the
\* witness is an interleaving in which a call returns something else.
C15_Alone(p) == FreshRun(th[p].text).components
C15_SerialCallsIsolated ==
    \A p \in Threads :
        (th[p].pc = "done" /\ ~th[p].overlapped) =>
            (th[p].raised = "none" /\ th[p].returned = C15_Alone(p))
C15_Witness ==
    \E p \in Threads :
        /\ th[p].pc = "done" /\ th[p].overlapped
        /\ th[p].text = <<"1", ".", " ", "V", "i", "s", "i", "o", "n", " ", "o", "f", " ", "t", "h", "e", " ", "d", "e", "p", "a", "r", "t", "m", "e", "n", "t">>
        /\ th[p].returned # C15_Alone(p)
        /\ Len(th[p].returned) = 2
        /\ th[p].returned[1].title = <<"S", "t", "u", "d", "e", "n", "t", " ", "n", "a", "m", "e", " ", "l", "i", "s", "t", "s">>
        /\ th[p].returned[2].title = <<"V", "i", "s", "i", "o", "n", " ", "o", "f", " ", "t", "h", "e", " ", "d", "e", "p", "a", "r", "t", "m", "e", "n", "t">>

\* C21: after extract_components_from_text, and after a following
\* organize_by_categories, every component is a member of at most one
\* category and is there at most once (no position of self.components
\* occurs twice in the member lists of the categories), and every member of
\* every category is an element of self.components.
C21_Slots ==
    UNION {{<<c, m>> : m \in 1..Len(categories[c].components)} :
              c \in 1..Len(categories)}
C21_MemberAt(s) == categories[s[1]].components[s[2]]
C21_MembersOnce ==
    \A s \in C21_Slots : \A t \in C21_Slots :
        s # t => C21_MemberAt(s) # C21_MemberAt(t)
C21_MembersListed ==
    \A s \in C21_Slots : C21_MemberAt(s) \in 1..Len(components)
C21_OneCategoryPerComponent ==
    (pc = "idle" /\ last \in {"extract", "organize"})
        => (C21_MembersOnce /\ C21_MembersListed)
C21_Witness ==
    /\ last = "organize"
    /\ text = ClosingText
    /\ Len(categories) = 2
    /\ categories[1].components = <<1, 2, 3>>
    /\ categories[2].components = <<4>>
    /\ Len(components) = 4

\* C22: when at least one line of the extracted text was recognized as a
\* category header, the category list after organize_by_categories holds no
\* synthesized category (none named "Components A-B").
C22_IsHeader(raw) == Strip(raw) # <<>> /\ _match_category(RStrip(raw)) # NoneV
C22_Synthesized(cat) == StartsWith(cat.name, <<"C", "o", "m", "p", "o", "n", "e", "n", "t", "s", " ">>)
C22_NoBucketsAfterHeader ==
    (/\ last = "organize" /\ text # NoneV
     /\ \E k \in 1..Len(SplitOn(text, NL)) : C22_IsHeader(SplitOn(text, NL)[k]))
    => \A c \in 1..Len(categories) : ~C22_Synthesized(categories[c])

\* C23: the repair pass at the end of extract_components_from_text changes
\* only titles: self.components keeps its length and order and every
\* component its number, description, category, raw_text and children, and
\* the categories are the ones closed before the pass, with their member
\* lists.
C23_SameButTitle(before, after) ==
    /\ after.number = before.number
    /\ after.description = before.description
    /\ after.category = before.category
    /\ after.raw_text = before.raw_text
    /\ after.children = before.children
C23_PassStep == pc = "loop" /\ pc' = "idle" /\ last' = "extract"
C23_OnlyTitlesChange ==
    [][C23_PassStep =>
          /\ Len(components') = Len(components)
          /\ \A k \in 1..Len(components) :
                C23_SameButTitle(components[k], components'[k])
          /\ Len(categories') >= Len(categories)
          /\ \A c \in 1..Len(categories) : categories'[c] = categories[c]
          /\ \A c \in 1..Len(categories') :
                c > Len(categories) =>
                    categories'[c].components = category_components]_vars
C23_Witness ==
    /\ last = "extract"
    /\ text = JoinLines(<< <<"C", "O", "U", "R", "S", "E", " ", "I", "N", "F", "O", ":">>, <<"4", ".">>, <<"N", "a", "m", "e", " ", "l", "i", "s", "t", "s">> >>)
    /\ Len(components) = 1
    /\ components[1].raw_text = <<"4", ".", " ", "N", "a", "m", "e", " ", "l", "i", "s", "t", "s">>
    /\ components[1].title = known_titles(<<"4">>)
    /\ categories = <<ComponentCategory(<<"C", "O", "U", "R", "S", "E", " ", "I", "N", "F", "O">>, <<1>>)>>

\* C24: no token of the page list of an index main-entry line is dropped:
\* the page_refs of the entry are the contributions of the comma-separated
\* tokens in order, where a token contributes its integer, or the integers
\* of its range (for a-b with a > b, the integers from b to a, in either
\* direction), or the token itself.  (The entry is looked at when no later
\* line of the text has the same term.)
C24_Up(a, b) == [k \in 1..(b - a + 1) |-> PageInt(a + k - 1)]
C24_Down(a, b) == [k \in 1..(a - b + 1) |-> PageInt(a - k + 1)]
C24_RangeOf(chunk, parts) ==
    IF Len(parts) = 2 /\ IsDigits(parts[1]) /\ IsDigits(parts[2])
    THEN IF ParseInt(parts[1]) <= ParseInt(parts[2])
         THEN {C24_Up(ParseInt(parts[1]), ParseInt(parts[2]))}
         ELSE {C24_Up(ParseInt(parts[2]), ParseInt(parts[1])),
               C24_Down(ParseInt(parts[1]), ParseInt(parts[2]))}
    ELSE {}
C24_Allowed(chunk) ==
    {<<PageStr(chunk)>>}
        \cup (IF IsDigits(chunk) THEN {<<PageInt(ParseInt(chunk))>>} ELSE {})
        \cup C24_RangeOf(chunk, SplitOn(chunk, "-"))
RECURSIVE C24_Covers(_, _)
C24_Covers(chunks, refs) ==
    IF chunks = <<>> THEN refs = <<>>
    ELSE \E c \in C24_Allowed(Strip(chunks[1])) :
            /\ Len(refs) >= Len(c)
            /\ SubSeq(refs, 1, Len(c)) = c
            /\ C24_Covers(Tail(chunks), SubSeq(refs, Len(c) + 1, Len(refs)))
C24_IsLastOfTerm(ls, k) ==
    /\ Strip(ls[k]) # <<>>
    /\ IndexPattern1(RStrip(ls[k])).ok
    /\ Strip(IndexPattern1(RStrip(ls[k])).term) # <<>>
    /\ \A j \in (k + 1)..Len(ls) :
          ~(IndexPattern1(RStrip(ls[j])).ok
              /\ Strip(IndexPattern1(RStrip(ls[j])).term)
                     = Strip(IndexPattern1(RStrip(ls[k])).term))
C24_LineKept(line) ==
    \E e \in 1..Len(index_entries) :
        /\ index_entries[e].term = Strip(IndexPattern1(line).term)
        /\ C24_Covers(SplitOn(IndexPattern1(line).pages, ","),
                      index_entries[e].page_refs)
C24_NoTokenDropped ==
    toc_last = "index" =>
        \A k \in 1..Len(SplitOn(toc_text, NL)) :
            C24_IsLastOfTerm(SplitOn(toc_text, NL), k)
                => C24_LineKept(RStrip(SplitOn(toc_text, NL)[k]))

\* C25: after extract_components_from_text no title in self.components
\* holds two whitespace characters in a row.
C25_SingleSpaced(t) ==
    \A k \in 1..(Len(t) - 1) : ~(t[k] \in WS /\ t[k + 1] \in WS)
C25_NoDoubleWhitespace ==
    (pc = "idle" /\ last = "extract")
        => \A k \in 1..Len(components) : C25_SingleSpaced(components[k].title)

\* C26: in the second loop of the repair pass main_topic, once it is not
\* empty, is the same after every later iteration, and every later
\* iteration on a title of at least 3 words that does not start with "("
\* leaves that title, as it was when the iteration began, in previous_title.
C26_Substantial(t) == Len(SplitWords(t)) >= 3 /\ t[1] # "("
C26_Iteration == rp.pc = "second" /\ rp'.pc = "second"
C26_TopicSetOnce ==
    [][(C26_Iteration /\ rp.main_topic # <<>>) =>
          /\ rp'.main_topic = rp.main_topic
          /\ C26_Substantial(components[rp.i + 1].title)
                => rp'.previous_title = components[rp.i + 1].title]_vars
C26_Witness ==
    /\ rp.pc = "second"
    /\ rp.i = 3
    /\ rp.main_topic = <<"V", "i", "s", "i", "o", "n", " ", "o", "f", " ", "t", "h", "e">>
    /\ rp.previous_title = <<"i", "s", " ", "t", "e", "a", "c", "h", "i", "n", "g", " ", "l", "o", "a", "d">>
    /\ components[3].title = <<"V", "i", "s", "i", "o", "n", " ", "o", "f", " ", "t", "h", "e", " ", "-", " ", "i", "s", " ", "t", "e", "a", "c", "h", "i", "n", "g", " ", "l", "o", "a", "d">>

\* C27: the forest a TOC call returns holds every entry of the first pass
\* exactly once (an entry is a root or a child of exactly one parent, and
\* the entries of the forest are the entries of the flat list, as often as
\* there), the level of a child is greater than the level of its parent,
\* and no entry is among its own descendants.
C27_Built(flat) ==
    BuildFrom([nodes |-> SortByLevel(flat), roots |-> <<>>, last |-> (0 :> 0)], 1)
C27_Times(seq, x) == Cardinality({j \in 1..Len(seq) : seq[j] = x})
C27_Parents(h, k) == {p \in 1..Len(h.nodes) : C27_Times(h.nodes[p].children, k) > 0}
C27_PlacedOnce(h, k) ==
    \/ /\ C27_Times(h.roots, k) = 1
       /\ C27_Parents(h, k) = {}
    \/ /\ C27_Times(h.roots, k) = 0
       /\ Cardinality(C27_Parents(h, k)) = 1
       /\ \A p \in C27_Parents(h, k) : C27_Times(h.nodes[p].children, k) = 1
RECURSIVE C27_Descendants(_, _, _)
C27_Descendants(h, ks, d) ==
    IF d = 0 THEN {}
    ELSE LET below == UNION {{h.nodes[k].children[j] :
                                 j \in 1..Len(h.nodes[k].children)} : k \in ks}
         IN  below \cup C27_Descendants(h, below, d - 1)
C27_IsTree(h) ==
    \A k \in 1..Len(h.nodes) :
        /\ C27_PlacedOnce(h, k)
        /\ \A p \in C27_Parents(h, k) : h.nodes[k].level > h.nodes[p].level
        /\ k \notin C27_Descendants(h, {k}, Len(h.nodes))
RECURSIVE C27_Flat(_)
C27_Flat(entries) ==
    IF entries = <<>> THEN <<>>
    ELSE <<[entries[1] EXCEPT !.children = <<>>]>>
             \o C27_Flat(entries[1].children) \o C27_Flat(Tail(entries))
C27_SameEntries(forest, flat) ==
    /\ Len(C27_Flat(forest)) = Len(flat)
    /\ \A k \in 1..Len(flat) :
          C27_Times(C27_Flat(forest), flat[k]) = C27_Times(flat, flat[k])
C28_IsEntryLine(raw, term) ==
    /\ Strip(raw) # <<>>
    /\ IndexPattern1(RStrip(raw)).ok
    /\ Strip(IndexPattern1(RStrip(raw)).term) = term
C28_FirstLine(ls, term) ==
    CHOOSE k \in 1..Len(ls) :
        /\ C28_IsEntryLine(ls[k], term)
        /\ \A j \in 1..(k - 1) : ~C28_IsEntryLine(ls[j], term)
C28_InFirstOrder(ls, entries) ==
    /\ \A a \in 1..Len(entries) :
          \E k \in 1..Len(ls) : C28_IsEntryLine(ls[k], entries[a].term)
    /\ \A a \in 1..Len(entries) : \A b \in 1..Len(entries) :
          a < b => C28_FirstLine(ls, entries[a].term)
                       < C28_FirstLine(ls, entries[b].term)
C28_FirstOccurrenceOrder ==
    toc_last = "index" => C28_InFirstOrder(SplitOn(toc_text, NL), toc_returned)
C28_Witness ==
    /\ toc_last = "index"
    /\ toc_text = JoinLines(<< <<"A", "l", "g", "o", "r", "i", "t", "h", "m", "s", ",", " ", "1", "0">>, <<" ", " ", "r", "e", "c", "u", "r", "s", "i", "v", "e", ",", " ", "1", "5", ",", " ", "1", "7">>,
                               <<"A", "l", "g", "o", "r", "i", "t", "h", "m", "s", ",", " ", "2", "3">> >>)
    /\ toc_returned =
           << IndexEntry(<<"A", "l", "g", "o", "r", "i", "t", "h", "m", "s">>, <<PageInt(23)>>),
              IndexEntry(<<"r", "e", "c", "u", "r", "s", "i", "v", "e">>, <<PageInt(15), PageInt(17)>>) >>

\* C29: after organize_by_categories every synthesized category has a name
\* "Components A-B" with A <= B, and the integer of the number of each of its
\* members lies in A..B.
C29_Label(a, b) == <<"C", "o", "m", "p", "o", "n", "e", "n", "t", "s", " ">> \o IntToStr(a) \o <<"-">> \o IntToStr(b)
C29_Synthesized(cat) == StartsWith(cat.name, <<"C", "o", "m", "p", "o", "n", "e", "n", "t", "s", " ">>)
C29_MembersWithin(cat, a, b) ==
    \A m \in 1..Len(cat.components) :
        /\ IsDigits(Strip(components[cat.components[m]].number))
        /\ ParseInt(Strip(components[cat.components[m]].number)) \in a..b
C29_RangeHolds(cat) ==
    \E a \in 0..(MaxN + BucketSize) : \E b \in a..(MaxN + BucketSize) :
        cat.name = C29_Label(a, b) /\ C29_MembersWithin(cat, a, b)
C29_BucketNamesItsMembers ==
    last = "organize" =>
        \A c \in 1..Len(categories) :
            C29_Synthesized(categories[c]) => C29_RangeHolds(categories[c])

\* C30: display_components renders every component of self.components
\* exactly once: the lines of the rendering that are neither blank nor a
\* "=== CATEGORY ===" header are the strings of the components, each as
\* often as self.components holds a component with that string.
C30_Count(seq, x) == Cardinality({j \in 1..Len(seq) : seq[j] = x})
C30_ItemLines(ls) ==
    {j \in 1..Len(ls) : ls[j] # <<>> /\ ~StartsWith(ls[j], <<"=", "=", "=", " ">>)}
C30_Strings == [k \in 1..Len(components) |-> Component_str(components[k])]
C30_RendersAll(ls) ==
    /\ Cardinality(C30_ItemLines(ls)) = Len(components)
    /\ \A k \in 1..Len(components) :
          C30_Count(ls, C30_Strings[k]) = C30_Count(C30_Strings, C30_Strings[k])
C30_EveryComponentRendered ==
    (last = "display" /\ components # <<>>)
        => C30_RendersAll(SplitOn(returned, NL))
====
